---- MODULE Spec2Model ----
(***************************************************************************)
(* Road-network geometry engine of traffic_scene_renderer: Vertex, Way,    *)
(* Crossing, Connection and RoadNetwork, as a state machine.               *)
(*                                                                         *)
(* Python objects live in a heap: `heap` is the sequence of Vertex objects *)
(* ever constructed and a Vertex reference is its position in that         *)
(* sequence, so that object identity (shared versus copied vertices) is    *)
(* part of the state.  Way objects are the entries of `ways`.              *)
(*                                                                         *)
(* Two specifications are given over the same operators:                   *)
(*   SpecNet  RoadNetwork.__init__ run step by step on an input network;   *)
(*   SpecWay  a client calling the Way / Crossing / Connection API on a    *)
(*            pool of freshly constructed ways.                            *)
(***************************************************************************)
EXTENDS Integers, Sequences, FiniteSets, TLC

VARIABLES
    heap,        \* Seq of Vertex objects [idx, x, y]; a reference is an index
    ways,        \* Seq of Way objects (RoadNetwork.ways, or the client's pool)
    crossings,   \* Seq of Crossing objects (RoadNetwork.crossings, or the client's)
    connections, \* Seq of Connection objects (RoadNetwork.connections, ...)
    net,         \* RoadNetwork: vertices, parms.ivs, parms.n_edges_per_vertex
    pc,          \* control point: "api" (SpecWay) or the constructor's phase
    loop,        \* loop counters of the constructor: [i_way, n_ways]
    ret,         \* the last API call: its arguments and what it returned
    nops         \* number of API calls made so far (bounded by MaxOps)

vars == <<heap, ways, crossings, connections, net, pc, loop, ret, nops>>

-----------------------------------------------------------------------------
(* Bounds of the model.                                                    *)

NumVertices  == 4    \* vertices of an input network
MaxWays      == 2    \* ways of an input network
MaxWayLen    == 3    \* vertices of an input way
PoolVertices == 4    \* vertices the API client builds its ways from
MaxPool      == 2    \* ways the API client starts with
MaxOps       == 2    \* API calls of the client
MaxIndexPad  == 1    \* indices tried run from -(len+pad) to len+pad-1

-----------------------------------------------------------------------------
(* Exact rational arithmetic for the lateral offsets (Python floats).      *)

Abs(i) == IF i < 0 THEN -i ELSE i

RECURSIVE GCD(_, _)
GCD(a, b) == IF b = 0 THEN a ELSE GCD(b, a % b)

\* n / d with the common divisor g taken out and the sign in the numerator
Reduce(n, d, g) ==
    IF d < 0 THEN [n |-> -(n \div g), d |-> -(d \div g)]
    ELSE [n |-> n \div g, d |-> d \div g]

Rat(n, d) == Reduce(n, d, GCD(Abs(n), Abs(d)))

RInt(i) == [n |-> i, d |-> 1]
\* sums over the least common denominator and products reduced crosswise,
\* so that no intermediate value is larger than need be; whole numbers are
\* added and multiplied as they are
AddOver(a, b, g) ==
    Rat(a.n * (b.d \div g) + b.n * (a.d \div g), (a.d \div g) * b.d)
RAdd(a, b) ==
    IF <<a.d, b.d>> = <<1, 1>> THEN RInt(a.n + b.n)
    ELSE AddOver(a, b, GCD(a.d, b.d))
RSub(a, b) == RAdd(a, [n |-> -b.n, d |-> b.d])
MulOver(a, b, g1, g2) ==
    Rat((a.n \div g1) * (b.n \div g2), (a.d \div g2) * (b.d \div g1))
RMul(a, b) ==
    IF <<a.d, b.d>> = <<1, 1>> THEN RInt(a.n * b.n)
    ELSE MulOver(a, b, GCD(Abs(a.n), b.d), GCD(Abs(b.n), a.d))
RDiv(a, b) ==
    IF b.n < 0 THEN RMul(a, [n |-> -b.d, d |-> -b.n])
    ELSE IF b.n = 0 THEN Rat(a.n * b.d, 0)
    ELSE RMul(a, [n |-> b.d, d |-> b.n])
RNeg(a) == [n |-> -a.n, d |-> a.d]
LessOver(a, b, g) == a.n * (b.d \div g) < b.n * (a.d \div g)
RLess(a, b) == LessOver(a, b, GCD(a.d, b.d))
RMax(a, b) == IF RLess(a, b) THEN b ELSE a
RMin(a, b) == IF RLess(b, a) THEN b ELSE a

(* Largest r with r*r <= n, by Newton's iteration from above; distances of *)
(* the model are exact because every segment that is measured has a        *)
(* perfect-square squared length.                                          *)
RECURSIVE NewtonSqrt(_, _)
NewtonStep(n, x, y) == IF y >= x THEN x ELSE NewtonSqrt(n, y)
NewtonSqrt(n, x) == NewtonStep(n, x, (x + n \div x) \div 2)
ISqrt(n) == IF n <= 0 THEN 0 ELSE NewtonSqrt(n, n)
IsRootOf(r, n) == r * r = n
IsSquare(n) == IsRootOf(ISqrt(n), n)

\* np.hypot
Hypot(dx, dy) == ISqrt(dx * dx + dy * dy)

\* np.hypot and np.sqrt of rationals whose root is rational
RSqrt(a) ==
    IF a.n <= 0 THEN RInt(0)
    ELSE Rat(ISqrt(a.n), ISqrt(a.d))
RHypot(a, b) == RSqrt(RAdd(RMul(a, a), RMul(b, b)))

-----------------------------------------------------------------------------
(* Python list semantics.                                                  *)

\* s[i]: a negative index counts from the end
PyInRange(s, i) == -Len(s) <= i /\ i < Len(s)
PyGet(s, i) == IF i < 0 THEN s[Len(s) + i + 1] ELSE s[i + 1]

\* position a slice bound denotes: negative counts from the end, then clamped
PyClamp(s, i) ==
    LET j == IF i < 0 THEN i + Len(s) ELSE i
    IN  IF j < 0 THEN 0 ELSE IF j > Len(s) THEN Len(s) ELSE j

\* s[:i] and s[i:]
PyUpTo(s, i) == SubSeq(s, 1, PyClamp(s, i))
PyFrom(s, i) == SubSeq(s, PyClamp(s, i) + 1, Len(s))

\* list.insert(i, x): x is placed before position i (clamped, never raises)
PyInsert(s, i, x) == PyUpTo(s, i) \o <<x>> \o PyFrom(s, i)

\* list.pop(i) for an index in range
PyPop(s, i) ==
    LET j == IF i < 0 THEN i + Len(s) ELSE i
    IN  SubSeq(s, 1, j) \o SubSeq(s, j + 2, Len(s))

\* Python's % (sign of the divisor), for a positive divisor
PyMod(i, m) == i % m

-----------------------------------------------------------------------------
(* Vertex (vertex.py) and Way (way.py).                                    *)

(* Vertex(idx, x, y).  The coordinates are floats: xcoordinate is          *)
(* x + xulp * 2^-50 and ycoordinate is y + yulp * 2^-50.  What a caller    *)
(* passes are whole numbers; xulp and yulp are what the rounding of        *)
(* compute_single_distance leaves on a coordinate it computes.  They are   *)
(* read where the code compares a distance with hlength_merge; elsewhere a *)
(* coordinate is taken for its whole number.                               *)
Vertex(idx, x, y) == [idx |-> idx, x |-> x, y |-> y, xulp |-> 0, yulp |-> 0]

\* WayConnection / WayCrossing defaults: no link at either end
NoLink == [i_start |-> -1, i_end |-> -1]

\* lane widths of WayOptions._compute_lane_width, in metres
DEFAULT_LANE_WIDTH == Rat(14, 5)
FOOTWAY_LANE_WIDTH == Rat(3, 2)

\* WayCrossing lambdas and WayConnection corner points before any process()
NoTrim == [start_left |-> RInt(0), start_right |-> RInt(0),
           end_left |-> RInt(0), end_right |-> RInt(0)]
Origin == [x |-> RInt(0), y |-> RInt(0)]
NoCorners == [left_start |-> Origin, right_start |-> Origin,
              left_end |-> Origin, right_end |-> Origin]

\* Way._compute_hwidth: lanewidth * nlanes / 2
HWidth(lanewidth, nlanes) == RDiv(RMul(lanewidth, RInt(nlanes)), RInt(2))

\* Way.__init__: ivs from the vertices, one zero offset per vertex; the
\* options are those of WayOptions(nlanes=nlanes): a road of the default
\* lane width and colors.  left and right are parms.left and parms.right,
\* the boundaries process() computes
WayInit(h, vs, nlanes) ==
    [vertices   |-> vs,
     ivs        |-> [k \in 1..Len(vs) |-> h[vs[k]].idx],
     offset     |-> [k \in 1..Len(vs) |-> RInt(0)],
     nlanes     |-> nlanes,
     connection |-> NoLink,
     crossing   |-> NoLink,
     highway    |-> "none",
     lanewidth  |-> DEFAULT_LANE_WIDTH,
     color      |-> "grey",
     side_color |-> "black",
     hwidth     |-> HWidth(DEFAULT_LANE_WIDTH, nlanes),
     trim       |-> NoTrim,
     corners    |-> NoCorners,
     left       |-> <<>>,
     right      |-> <<>>]

(* WayOptions(highway=..., nlanes=..., color=...): nlanes 0 and color       *)
(* "default" stand for an option that is not given and is then computed.   *)
WayOptions(highway, nlanes, color) ==
    [highway    |-> highway,
     nlanes     |-> IF nlanes # 0 THEN nlanes
                    ELSE IF highway = "footway" THEN 1 ELSE 2,
     lanewidth  |-> IF highway = "footway" THEN FOOTWAY_LANE_WIDTH
                    ELSE DEFAULT_LANE_WIDTH,
     color      |-> IF color # "default" THEN color
                    ELSE IF highway = "footway" THEN "sand" ELSE "grey",
     side_color |-> IF highway = "footway" THEN "green" ELSE "black"]

\* Way(vertices, options)
WayInitOptions(h, vs, options) ==
    [WayInit(h, vs, options.nlanes) EXCEPT
        !.highway    = options.highway,
        !.lanewidth  = options.lanewidth,
        !.color      = options.color,
        !.side_color = options.side_color,
        !.hwidth     = HWidth(options.lanewidth, options.nlanes)]

\* distance between two Vertex objects of the heap
VDist(h, a, b) == Hypot(h[a].x - h[b].x, h[a].y - h[b].y)
VDistExact(h, a, b) ==
    IsSquare((h[a].x - h[b].x) * (h[a].x - h[b].x)
             + (h[a].y - h[b].y) * (h[a].y - h[b].y))

(* Way.split(index).  copy.deepcopy(self) builds a second Way whose        *)
(* vertices, options and parms are all new objects (the copies are         *)
(* appended to the heap); both ways are then sliced.                       *)
WaySplit(h, way, index) ==
    LET n      == Len(way.vertices)
        copies == [k \in 1..n |-> h[way.vertices[k]]]
        refs   == [k \in 1..n |-> Len(h) + k]
    IN  [heap |-> h \o copies,
         self |-> [way EXCEPT !.vertices = PyUpTo(way.vertices, index + 1),
                              !.ivs      = PyUpTo(way.ivs, index + 1),
                              !.offset   = PyUpTo(way.offset, index + 1)],
         way  |-> [way EXCEPT !.vertices = PyFrom(refs, index),
                              !.ivs      = PyFrom(way.ivs, index),
                              !.offset   = PyFrom(way.offset, index)]]

\* insert_vertex: the index after "if index < 0: index += len(self.ivs)"
InsertIndex(way, index) == IF index < 0 THEN index + Len(way.ivs) ELSE index

\* insert_vertex: "index == 0 or abs(index) >= len(self.ivs)"
InsertRaises(way, index) ==
    InsertIndex(way, index) = 0 \/ Abs(InsertIndex(way, index)) >= Len(way.ivs)

\* insert_vertex: the two distances are measured after the vertex is in the list
InsertDist1(h, way, v, index) ==
    LET i  == InsertIndex(way, index)
        vs == PyInsert(way.vertices, i, v)
    IN  [a |-> PyGet(vs, i - 1), b |-> PyGet(vs, i)]
InsertDist2(h, way, v, index) ==
    LET i  == InsertIndex(way, index)
        vs == PyInsert(way.vertices, i, v)
    IN  [a |-> PyGet(vs, i), b |-> PyGet(vs, i + 1)]

\* inputs for which np.hypot is exact and dist1 + dist2 is not zero
InsertMeasurable(h, way, v, index) ==
    IF InsertRaises(way, index) THEN TRUE
    ELSE LET d1 == InsertDist1(h, way, v, index)
             d2 == InsertDist2(h, way, v, index)
         IN  /\ VDistExact(h, d1.a, d1.b)
             /\ VDistExact(h, d2.a, d2.b)
             /\ VDist(h, d1.a, d1.b) + VDist(h, d2.a, d2.b) > 0

\* insert_vertex: the two flags returned
InsertStartAgain(way, index) ==
    InsertIndex(way, index) = 1 /\ way.crossing.i_start >= 0
InsertEndAgain(way, index) ==
    InsertIndex(way, index) = (Len(way.ivs) + 1) - 2 /\ way.crossing.i_end >= 0

(* Way.insert_vertex(vertex, index): [raised, way, start, end]             *)
WayInsertVertex(h, way, v, index) ==
    IF InsertRaises(way, index)
    THEN [raised |-> TRUE, way |-> way, start |-> FALSE, end |-> FALSE]
    ELSE
      LET i   == InsertIndex(way, index)
          d1  == InsertDist1(h, way, v, index)
          d2  == InsertDist2(h, way, v, index)
          dist1 == RInt(VDist(h, d1.a, d1.b))
          dist2 == RInt(VDist(h, d2.a, d2.b))
          off == RDiv(RAdd(RMul(PyGet(way.offset, i - 1), dist2),
                           RMul(PyGet(way.offset, i), dist1)),
                      RAdd(dist1, dist2))
      IN  [raised |-> FALSE,
           way    |-> [way EXCEPT !.vertices = PyInsert(way.vertices, i, v),
                                  !.ivs      = PyInsert(way.ivs, i, h[v].idx),
                                  !.offset   = PyInsert(way.offset, i, off)],
           start  |-> InsertStartAgain(way, index),
           end    |-> InsertEndAgain(way, index)]

\* pop_vertex: "index == 0 or abs(index) >= len(self.ivs) - 1"
PopRaises(way, index) == index = 0 \/ Abs(index) >= Len(way.ivs) - 1

\* pop_vertex: the two flags, computed before the vertex is removed
PopStartAgain(way, index) ==
    PyMod(index, Len(way.ivs)) = 1 /\ way.crossing.i_start >= 0
PopEndAgain(way, index) ==
    PyMod(index, Len(way.ivs)) = Len(way.ivs) - 2 /\ way.crossing.i_end >= 0

\* a pop_vertex that forgets to pop the offset of the vertex it removes
WayPopVertexKeepOffset(way, index) ==
    IF PopRaises(way, index)
    THEN [raised |-> TRUE, way |-> way, start |-> FALSE, end |-> FALSE]
    ELSE [raised |-> FALSE,
          way    |-> [way EXCEPT !.vertices = PyPop(way.vertices, index),
                                 !.ivs      = PyPop(way.ivs, index)],
          start  |-> PopStartAgain(way, index),
          end    |-> PopEndAgain(way, index)]

(* Way.pop_vertex(index): [raised, way, start, end]                        *)
WayPopVertex(way, index) ==
    IF PopRaises(way, index)
    THEN [raised |-> TRUE, way |-> way, start |-> FALSE, end |-> FALSE]
    ELSE [raised |-> FALSE,
          way    |-> [way EXCEPT !.vertices = PyPop(way.vertices, index),
                                 !.ivs      = PyPop(way.ivs, index),
                                 !.offset   = PyPop(way.offset, index)],
          start  |-> PopStartAgain(way, index),
          end    |-> PopEndAgain(way, index)]

\* apply_offset: cumulative arc length up to vertex k (1-based), cumlative_dist
RECURSIVE CumDist(_, _, _)
CumDist(h, vs, k) ==
    IF k <= 1 THEN 0 ELSE CumDist(h, vs, k - 1) + VDist(h, vs[k - 1], vs[k])

\* apply_offset: every segment has an exact length and the way is not a point
OffsetMeasurable(h, way) ==
    /\ \A k \in 2..Len(way.vertices) :
           VDistExact(h, way.vertices[k - 1], way.vertices[k])
    /\ CumDist(h, way.vertices, Len(way.vertices)) > 0

(* Way.apply_offset: new_offset, the list that is added to parms.offset.   *)
(* spec is [list |-> TRUE, v |-> the list] for a list argument and         *)
(* [list |-> FALSE, v |-> <<o>>] for a scalar argument o.                  *)
NewOffset(h, way, spec) ==
    IF spec.list
    THEN IF Len(spec.v) = 2
         THEN [k \in 1..Len(way.vertices) |->
                  RAdd(spec.v[1],
                       RMul(RDiv(RInt(CumDist(h, way.vertices, k)),
                                 RInt(CumDist(h, way.vertices, Len(way.vertices)))),
                            RSub(spec.v[2], spec.v[1])))]
         ELSE spec.v
    ELSE [k \in 1..Len(way.offset) |-> RInt(1)]

(* Way.apply_offset(offset): [raised, way].  The loop adds new_offset[i]   *)
(* to offset[i] in place and stops with IndexError where new_offset ends.  *)
WayApplyOffset(h, way, spec) ==
    LET new == NewOffset(h, way, spec)
        n   == Len(way.offset)
    IN  [raised |-> Len(new) < n,
         way    |-> [way EXCEPT !.offset =
                        [k \in 1..n |-> IF k <= Len(new)
                                        THEN RAdd(way.offset[k], new[k])
                                        ELSE way.offset[k]]]]

\* a float that is not a number, and a point with such a coordinate
NaN == [n |-> 0, d |-> 0]
IsNaN(p) == p.x.d = 0 \/ p.y.d = 0
NaNPoint == [x |-> NaN, y |-> NaN]

\* apply_offset: direction[i] before it is normalised (i is 1-based): the
\* step to point max(i, 1) from the point before it (0-based in the code)
DirectionTo(xy, hi) ==
    [x |-> RSub(xy[hi].x, xy[hi - 1].x), y |-> RSub(xy[hi].y, xy[hi - 1].y)]
OffsetDirection(xy, i) == DirectionTo(xy, IF i = 1 THEN 2 ELSE i)

\* apply_offset: direction[i] is not a number if a point it is made of is
\* none, or if the two points coincide (0 / 0)
DirectionNaNTo(xy, hi) ==
    \/ IsNaN(xy[hi]) \/ IsNaN(xy[hi - 1])
    \/ (xy[hi].x = xy[hi - 1].x /\ xy[hi].y = xy[hi - 1].y)
OffsetDirectionNaN(xy, i) == DirectionNaNTo(xy, IF i = 1 THEN 2 ELSE i)

\* apply_offset: direction[i], normalised
Scaled(d, n) == [x |-> RDiv(d.x, n), y |-> RDiv(d.y, n)]
Normalised(d) == Scaled(d, RHypot(d.x, d.y))
OffsetUnit(xy, i) == Normalised(OffsetDirection(xy, i))

\* apply_offset: cosines[i] and sign[i]; the last entry of both is 1
Dot(a, b) == RAdd(RMul(a.x, b.x), RMul(a.y, b.y))
Turn(a, b) == RSub(RMul(a.y, b.x), RMul(a.x, b.y))
SignOf(c) == RInt(IF c.n > 0 THEN 1 ELSE IF c.n < 0 THEN -1 ELSE 0)
OffsetCosine(xy, i) ==
    IF i = Len(xy) THEN RInt(1)
    ELSE Dot(OffsetUnit(xy, i), OffsetUnit(xy, i + 1))
OffsetSign(xy, i) ==
    IF i = Len(xy) THEN RInt(1)
    ELSE SignOf(Turn(OffsetUnit(xy, i), OffsetUnit(xy, i + 1)))

(* apply_offset: extra[i] = sqrt((1 - cos) / (1 + cos)) * sign.  Where the *)
(* line turns back on itself cos is -1, the quotient is inf, the sign is 0 *)
(* and inf * 0 is not a number.  (A quotient below 0, which rounding can   *)
(* give and the code sets to 0, does not occur in exact arithmetic.)       *)
TanHalfOf(c, sign) ==
    IF c = RInt(-1) THEN NaN
    ELSE RMul(RSqrt(RDiv(RSub(RInt(1), c), RAdd(RInt(1), c))), sign)
OffsetExtra(xy, i) == TanHalfOf(OffsetCosine(xy, i), OffsetSign(xy, i))

\* a line shifted to the right instead of to the left
ApplyOffsetXYRight(xy, off) ==
    [i \in 1..Len(xy) |->
        [x |-> RAdd(xy[i].x, RMul(OffsetUnit(xy, i).y, off[i])),
         y |-> RSub(xy[i].y, RMul(OffsetUnit(xy, i).x, off[i]))]]

\* apply_offset: xy_new[i] from the point, direction[i], extra[i] and off[i]
ShiftedPoint(p, d, e, o) ==
    IF e.d = 0 THEN NaNPoint
    ELSE [x |-> RAdd(p.x, RMul(RSub(RMul(d.x, e), d.y), o)),
          y |-> RAdd(p.y, RMul(RAdd(RMul(d.y, e), d.x), o))]

(* apply_offset(xy_data, offset), the function of the module, for an array *)
(* of N >= 2 points; off holds the N offsets (np.ones(N) * offset for a    *)
(* scalar).  A point is not a number if anything it is computed from is.   *)
ApplyOffsetXY(xy, off) ==
    [i \in 1..Len(xy) |->
        IF \/ IsNaN(xy[i])
           \/ OffsetDirectionNaN(xy, i)
           \/ (i < Len(xy) /\ OffsetDirectionNaN(xy, i + 1))
        THEN NaNPoint
        ELSE ShiftedPoint(xy[i], OffsetUnit(xy, i), OffsetExtra(xy, i), off[i])]

\* np.ones(N) * offset
Uniform(n, o) == [i \in 1..n |-> o]

\* the (x, y) array of the vertices of a way
VertexXY(h, way) ==
    [k \in 1..Len(way.vertices) |->
        [x |-> RInt(h[way.vertices[k]].x), y |-> RInt(h[way.vertices[k]].y)]]

\* a rational that has a rational root
RatSquare(q) == IsSquare(q.n) /\ IsSquare(q.d)
SquaredLength(d) == RAdd(RMul(d.x, d.x), RMul(d.y, d.y))
PositiveSquare(q) == q.n > 0 /\ RatSquare(q)
TanSquared(c) ==
    IF c = RInt(-1) THEN RInt(0)
    ELSE RDiv(RSub(RInt(1), c), RAdd(RInt(1), c))

\* every segment has a rational length and every bend a rational
\* tan(alpha/2), as far as the points are numbers
LineMeasurable(xy) ==
    /\ Len(xy) >= 2
    /\ \A i \in 2..Len(xy) :
          IF IsNaN(xy[i]) \/ IsNaN(xy[i - 1]) THEN TRUE
          ELSE PositiveSquare(SquaredLength(OffsetDirection(xy, i)))
    /\ \A i \in 1..Len(xy) - 1 :
          IF OffsetDirectionNaN(xy, i) \/ OffsetDirectionNaN(xy, i + 1) THEN TRUE
          ELSE RatSquare(TanSquared(OffsetCosine(xy, i)))

\* get_xy: a point moved the fraction lam of the way towards another
Toward(p, q, lam) ==
    [x |-> RAdd(p.x, RMul(lam, RSub(q.x, p.x))),
     y |-> RAdd(p.y, RMul(lam, RSub(q.y, p.y)))]

\* get_xy: the first point is moved along the first segment by the larger
\* lambda of the crossing at the start
TrimStart(xy, way) ==
    IF way.crossing.i_start >= 0
    THEN [xy EXCEPT ![1] = Toward(xy[1], xy[2],
                               RMax(way.trim.start_left, way.trim.start_right))]
    ELSE xy

\* get_xy: the last point is moved towards xy_tmp, the second last point as
\* it was before the first one moved
TrimEnd(xy, xy_tmp, way) ==
    IF way.crossing.i_end >= 0
    THEN [xy EXCEPT ![Len(xy)] = Toward(xy[Len(xy)], xy_tmp,
                                     RMax(way.trim.end_left, way.trim.end_right))]
    ELSE xy

(* Way.get_xy: the ends are moved along their segment by the larger lambda *)
(* of a crossing, then the offsets of the way are applied.  A list of two  *)
(* offsets is taken by apply_offset for the offsets of the two ends, which *)
(* for a way of two vertices is the same list.                             *)
GetXYFrom(xy, way) ==
    ApplyOffsetXY(TrimEnd(TrimStart(xy, way), xy[Len(xy) - 1], way), way.offset)
WayGetXY(h, way) == GetXYFrom(VertexXY(h, way), way)

\* process(): a boundary with its ends replaced by the corner points of a
\* connection where there is one and no crossing
WithCorners(way, b, first, last) ==
    [k \in 1..Len(b) |->
        IF k = Len(b) /\ way.connection.i_end >= 0 /\ way.crossing.i_end = -1
        THEN last
        ELSE IF k = 1 /\ way.connection.i_start >= 0 /\ way.crossing.i_start = -1
        THEN first
        ELSE b[k]]

\* process(): parms.left and parms.right from the array get_xy returned
WayBoundaries(way, xy) ==
    [way EXCEPT
       !.left  = WithCorners(way, ApplyOffsetXY(xy, Uniform(Len(xy), way.hwidth)),
                             way.corners.left_start, way.corners.left_end),
       !.right = WithCorners(way, ApplyOffsetXY(xy, Uniform(Len(xy), RNeg(way.hwidth))),
                             way.corners.right_start, way.corners.right_end)]

(* Way.process(): parms.left and parms.right; the ends are replaced by the *)
(* corner points of a connection where there is one and no crossing.  The  *)
(* lane lines are drawn from the same array and are not kept here.         *)
WayProcess(h, way) == WayBoundaries(way, WayGetXY(h, way))

-----------------------------------------------------------------------------
(* Crossing (crossing.py).                                                 *)

\* Crossing.direction(way): away from the crossing along the way's first
\* segment if the way starts at the crossing's vertex, else along its last
CrossingDirection(h, way, vidx) ==
    IF way.ivs[1] = vidx
    THEN [dx |-> h[PyGet(way.vertices, 1)].x - h[PyGet(way.vertices, 0)].x,
          dy |-> h[PyGet(way.vertices, 1)].y - h[PyGet(way.vertices, 0)].y]
    ELSE [dx |-> h[PyGet(way.vertices, -2)].x - h[PyGet(way.vertices, -1)].x,
          dy |-> h[PyGet(way.vertices, -2)].y - h[PyGet(way.vertices, -1)].y]

(* Order of np.arctan2(dx, dy), a value in (-pi, pi], decided exactly:     *)
(* first by the sector the direction lies in, then by the cross product.   *)
AngleSector(d) ==
    IF d.dx < 0 THEN 0
    ELSE IF d.dx = 0 /\ d.dy >= 0 THEN 1
    ELSE IF d.dx > 0 THEN 2
    ELSE 3

AngleLess(a, b) ==
    \/ AngleSector(a) < AngleSector(b)
    \/ /\ AngleSector(a) = AngleSector(b)
       /\ AngleSector(a) \in {0, 2}
       /\ a.dy * b.dx - a.dx * b.dy > 0

\* np.argsort(angles): positions of dirs in ascending angle, ties in input order
ArgSort(dirs) ==
    LET n == Len(dirs)
        Before(j, i) == \/ AngleLess(dirs[j], dirs[i])
                        \/ /\ ~AngleLess(dirs[i], dirs[j])
                           /\ j < i
        Rank(i) == Cardinality({j \in 1..n : Before(j, i)})
    IN  [r \in 1..n |-> CHOOSE i \in 1..n : Rank(i) = r - 1]

\* Crossing._determine_color: the ways are still in the order given.  Of a
\* zebra's ways every road overwrites the color, there is no break
RECURSIVE ZebraColor(_, _, _, _)
ZebraColor(W, wis, k, acc) ==
    IF k > Len(wis) THEN acc
    ELSE ZebraColor(W, wis, k + 1,
             IF W[wis[k]].highway # "footway"
             THEN [color |-> W[wis[k]].color, edge_color |-> W[wis[k]].side_color]
             ELSE acc)

\* CrossingOptions defaults: color None, edge_color (0, 0, 0)
NoColor == [color |-> "none", edge_color |-> "black"]

DetermineColor(W, wis, zebra) ==
    IF ~zebra
    THEN [color |-> W[wis[1]].color, edge_color |-> W[wis[1]].side_color]
    ELSE ZebraColor(W, wis, 1, NoColor)

\* parms.zebra: exactly two of the ways are footways
IsZebra(W, wis) ==
    Cardinality({k \in 1..Len(wis) : W[wis[k]].highway = "footway"}) = 2

(* Crossing.__init__(index, vertex, ways): the ways are reordered          *)
(* clockwise and every way gets the crossing's index in the link slot of   *)
(* the end that is at the vertex (the start if ivs[0] is the vertex's id,  *)
(* otherwise the end is assumed).  wis are positions in W.                 *)
(* angles holds, in place of np.arctan2, the direction itself; radius      *)
(* is options.radius; radii, circle, lambda_left, lambda_right belong to   *)
(* parms.circles and parms.way; plot_first and plot_last are the rows 0    *)
(* and -1 of parms.plot, the ends of each corner's boundary.               *)
(* Result: [ways, crossing].                                               *)
CrossingInit(h, W, index, vertex, wis) ==
    LET vidx   == h[vertex].idx
        dirs   == [k \in 1..Len(wis) |-> CrossingDirection(h, W[wis[k]], vidx)]
        iways  == ArgSort(dirs)
        sorted == [k \in 1..Len(wis) |-> wis[iways[k]]]
        start  == [k \in 1..Len(wis) |-> W[sorted[k]].ivs[1] = vidx]
        InC(w) == \E k \in 1..Len(wis) : wis[k] = w
        zebra  == IsZebra(W, wis)
        col    == DetermineColor(W, wis, zebra)
    IN  [ways |-> [w \in 1..Len(W) |->
                     IF ~InC(w) THEN W[w]
                     ELSE IF W[w].ivs[1] = vidx
                          THEN [W[w] EXCEPT !.crossing.i_start = index]
                          ELSE [W[w] EXCEPT !.crossing.i_end = index]],
         crossing |-> [idx      |-> index,
                       vertex   |-> vertex,
                       ways     |-> sorted,
                       at_start |-> start,
                       zebra    |-> zebra,
                       color    |-> col.color,
                       edge_color |-> col.edge_color,
                       radius   |-> RInt(-1),
                       angles   |-> [k \in 1..Len(wis) |-> dirs[iways[k]]],
                       radii    |-> [k \in 1..Len(wis) |-> RInt(-1)],
                       circle   |-> [k \in 1..Len(wis) |-> Origin],
                       lambda_left  |-> [k \in 1..Len(wis) |-> RInt(0)],
                       lambda_right |-> [k \in 1..Len(wis) |-> RInt(0)],
                       plot_first   |-> [k \in 1..Len(wis) |-> Origin],
                       plot_last    |-> [k \in 1..Len(wis) |-> Origin],
                       processed    |-> FALSE]]

\* Crossing.direction(index): by the at_start flag stored at construction
CrossingDirectionAt(h, way, at_start) ==
    IF at_start
    THEN [dx |-> h[PyGet(way.vertices, 1)].x - h[PyGet(way.vertices, 0)].x,
          dy |-> h[PyGet(way.vertices, 1)].y - h[PyGet(way.vertices, 0)].y]
    ELSE [dx |-> h[PyGet(way.vertices, -2)].x - h[PyGet(way.vertices, -1)].x,
          dy |-> h[PyGet(way.vertices, -2)].y - h[PyGet(way.vertices, -1)].y]

\* start_and_direction: from the direction d of the way, its length n, the
\* Vertex v of the crossing and the offset, negated for the right side
StartFrom(d, n, v, offset) ==
    [x_init |-> RAdd(RInt(v.x), RMul(Rat(-d.dy, n), offset)),
     y_init |-> RAdd(RInt(v.y), RMul(Rat(d.dx, n), offset)),
     x_dir  |-> RInt(d.dx),
     y_dir  |-> RInt(d.dy)]
StartAlong(d, v, offset) == StartFrom(d, Hypot(d.dx, d.dy), v, offset)

\* Crossing.start_and_direction(i, offset, left=left)
StartAndDirection(h, W, c, i, offset, left) ==
    StartAlong(CrossingDirectionAt(h, W[c.ways[i]], c.at_start[i]), h[c.vertex],
               IF left THEN offset ELSE RNeg(offset))

\* compute_intersection: the solution (s0, s1) of the linear system
Solved(way1, way2, s0, s1) ==
    [raised |-> FALSE,
     x |-> RAdd(way1.x_init, RMul(s0, way1.x_dir)),
     y |-> RAdd(way1.y_init, RMul(s0, way1.y_dir)),
     lambda_right |-> s0, lambda_left |-> s1,
     way1 |-> way1, way2 |-> way2]

\* compute_intersection: np.linalg.solve on the right-hand side (bx, by)
\* and the determinant det
Solve(way1, way2, bx, by, det) ==
    IF det.n = 0
    THEN [raised |-> TRUE, x |-> RInt(0), y |-> RInt(0),
          lambda_right |-> RInt(0), lambda_left |-> RInt(0),
          way1 |-> way1, way2 |-> way2]
    ELSE Solved(way1, way2,
                RDiv(RSub(RMul(way2.x_dir, by), RMul(way2.y_dir, bx)), det),
                RDiv(RSub(RMul(way1.x_dir, by), RMul(way1.y_dir, bx)), det))

\* compute_intersection: of the two lines start_and_direction returned
Intersect(way1, way2) ==
    Solve(way1, way2,
          RSub(way2.x_init, way1.x_init), RSub(way2.y_init, way1.y_init),
          RSub(RMul(way2.x_dir, way1.y_dir), RMul(way1.x_dir, way2.y_dir)))

(* Crossing.compute_intersection(i_way1, i_way2, offset1, offset2).        *)
(* np.linalg.solve raises LinAlgError on a singular matrix: parallel arms. *)
ComputeIntersection(h, W, c, i1, i2, offset1, offset2) ==
    Intersect(StartAndDirection(h, W, c, i1, offset1, FALSE),
              StartAndDirection(h, W, c, i2, offset2, TRUE))

\* np.arctan2(0, 0) is 0, the angle of the direction (0, 1)
AngleDir(d) == IF d.dx = 0 /\ d.dy = 0 THEN [dx |-> 0, dy |-> 1] ELSE d

(* angle = np.mod(angles[i_way2] - angles[i_way1], 2 * np.pi), with the    *)
(* angles np.arctan2(dx, dy): sin(angle) and cos(angle) times the lengths  *)
(* of the two directions are the two products below.                       *)
AngleSin(a1, a2) == AngleDir(a2).dx * AngleDir(a1).dy - AngleDir(a2).dy * AngleDir(a1).dx
AngleCos(a1, a2) == AngleDir(a2).dx * AngleDir(a1).dx + AngleDir(a2).dy * AngleDir(a1).dy

(* Two exactly opposite directions: the angle is pi, and the comparison    *)
(* with np.pi is decided by the rounding of the two np.arctan2 values.     *)
(* For a first way along (8, 15), (7, 24) or (12, 35) (mirrored in y or    *)
(* scaled) the doubles give np.mod(a2 - a1, 2 * np.pi) = np.pi - 4.4e-16;  *)
(* for the axes and for (3, 4), (4, 3), (5, 12) they give np.pi.           *)
RoundsBelowPi(a1) ==
    LET d == AngleDir(a1)
        g == GCD(Abs(d.dx), Abs(d.dy))
    IN  /\ d.dx > 0
        /\ <<d.dx \div g, Abs(d.dy) \div g>> \in {<<8, 15>>, <<7, 24>>, <<12, 35>>}

\* a comparison that takes every corner for one of at least 180 degrees
NeverBelowPi(a1, a2) == TRUE

\* angle >= np.pi
AngleAtLeastPi(a1, a2) ==
    \/ AngleSin(a1, a2) < 0
    \/ AngleSin(a1, a2) = 0 /\ AngleCos(a1, a2) < 0 /\ ~RoundsBelowPi(a1)

\* np.tan(angle / 2) = sin(angle) / (1 + cos(angle)), for angle < pi
TanHalfAngle(a1, a2) ==
    RDiv(RInt(AngleSin(a1, a2)),
         RInt(Hypot(AngleDir(a1).dx, AngleDir(a1).dy)
                * Hypot(AngleDir(a2).dx, AngleDir(a2).dy)
              + AngleCos(a1, a2)))

\* index of the second way of corner i (1-based)
SecondWay(c, i) == IF i < Len(c.ways) THEN i + 1 ELSE 1

\* the largest lambda a way may lose to a corner
MaxLambda(way) == IF Len(way.vertices) = 2 THEN Rat(9, 20) ELSE Rat(9, 10)

\* a corner that halves the radius an earlier process() has left behind
ComputeCornerInfoHalving(h, W, c, i) ==
    LET i2     == SecondWay(c, i)
        radius == IF c.radii[i].n < 0 THEN c.radius
                  ELSE RMul(c.radii[i], Rat(1, 2))
        x      == ComputeIntersection(h, W, c, i, i2,
                                      RAdd(W[c.ways[i]].hwidth, radius),
                                      RAdd(W[c.ways[i2]].hwidth, radius))
    IN  [raised |-> x.raised, radius |-> radius,
         circle |-> [x |-> x.x, y |-> x.y],
         lambda_left |-> x.lambda_left,
         lambda_right |-> x.lambda_right, i_way2 |-> i2]

\* compute_corner_info: what is returned for the radius r and the
\* intersection x
CornerInfo(i2, r, x) ==
    [radius |-> r, raised |-> x.raised,
     circle |-> [x |-> x.x, y |-> x.y],
     lambda_left |-> x.lambda_left,
     lambda_right |-> x.lambda_right, i_way2 |-> i2]

\* compute_corner_info: distance from the point (x, y) to the point the
\* fraction lam along the line sd
ReachFrom(sd, lam, x) ==
    RHypot(RSub(RAdd(sd.x_init, RMul(lam, sd.x_dir)), x.x),
           RSub(RAdd(sd.y_init, RMul(lam, sd.y_dir)), x.y))

\* compute_corner_info: the radius that fits, from the intersection of the
\* two road sides
SmallerRadius(w1, w2, a1, a2, roadside) ==
    RMul(RMin(ReachFrom(roadside.way1, MaxLambda(w1), roadside),
              ReachFrom(roadside.way2, MaxLambda(w2), roadside)),
         TanHalfAngle(a1, a2))

\* compute_corner_info: the corner once more, with the smaller radius
CornerAgain(h, W, c, i, i2, smaller) ==
    CornerInfo(i2, smaller,
               ComputeIntersection(h, W, c, i, i2,
                                   RAdd(W[c.ways[i]].hwidth, smaller),
                                   RAdd(W[c.ways[i2]].hwidth, smaller)))

\* compute_corner_info: the corner with the radius tried first, unless a
\* lambda is larger than the way allows
CornerFirst(h, W, c, i, i2, radius, first) ==
    IF first.raised THEN CornerInfo(i2, radius, first)
    ELSE IF \/ RLess(MaxLambda(W[c.ways[i]]), first.lambda_right)
            \/ RLess(MaxLambda(W[c.ways[i2]]), first.lambda_left)
    THEN CornerAgain(h, W, c, i, i2,
             SmallerRadius(W[c.ways[i]], W[c.ways[i2]], c.angles[i], c.angles[i2],
                           ComputeIntersection(h, W, c, i, i2, W[c.ways[i]].hwidth,
                                               W[c.ways[i2]].hwidth)))
    ELSE CornerInfo(i2, radius, first)

\* compute_corner_info for the corner between way i and way i2, with the
\* radius to try first
CornerBetween(h, W, c, i, i2, radius) ==
    IF AngleAtLeastPi(c.angles[i], c.angles[i2])
    THEN [raised |-> FALSE, radius |-> W[c.ways[i]].hwidth,
          circle |-> [x |-> RInt(h[c.vertex].x), y |-> RInt(h[c.vertex].y)],
          lambda_left |-> RInt(0), lambda_right |-> RInt(0), i_way2 |-> i2]
    ELSE CornerFirst(h, W, c, i, i2, radius,
             ComputeIntersection(h, W, c, i, i2,
                                 RAdd(W[c.ways[i]].hwidth, radius),
                                 RAdd(W[c.ways[i2]].hwidth, radius)))

(* Crossing.compute_corner_info(i_way1): [raised, radius, circle,          *)
(* lambda_left, lambda_right, i_way2].  The radius tried first is the one  *)
(* an earlier process() left in parms.circles.radii, if there is one.      *)
ComputeCornerInfo(h, W, c, i) ==
    CornerBetween(h, W, c, i, SecondWay(c, i),
                  IF c.radii[i].n < 0 THEN c.radius ELSE c.radii[i])

\* Crossing.compute_radius; roads and footways as the way options say
ComputeRadius(W, c) ==
    IF c.radius # RInt(-1) THEN c.radius
    ELSE IF c.zebra THEN Rat(1, 100)
    ELSE IF \A k \in 1..Len(c.ways) : W[c.ways[k]].highway = "footway"
    THEN Rat(1, 100)
    ELSE RInt(2)

\* process(), first loop: corner i is computed and written to the crossing
RECURSIVE ProcessCorners(_, _, _, _)
CornerWritten(h, W, c, i, info) ==
    IF info.raised THEN [raised |-> TRUE, crossing |-> c]
    ELSE ProcessCorners(h, W,
             [c EXCEPT !.radii[i] = info.radius,
                       !.circle[i] = info.circle,
                       !.lambda_left[info.i_way2] = info.lambda_left,
                       !.lambda_right[i] = info.lambda_right],
             i + 1)
ProcessCorners(h, W, c, i) ==
    IF i > Len(c.ways) THEN [raised |-> FALSE, crossing |-> c]
    ELSE CornerWritten(h, W, c, i, ComputeCornerInfo(h, W, c, i))

\* process(), second loop: the two ends of the boundary of corner i
PlotAlong(sd, lam) ==
    [x |-> RAdd(sd.x_init, RMul(sd.x_dir, lam)),
     y |-> RAdd(sd.y_init, RMul(sd.y_dir, lam))]
PlotEnd(h, W, c, i, left) ==
    PlotAlong(StartAndDirection(h, W, c, i, W[c.ways[i]].hwidth, left),
              RMax(c.lambda_left[i], c.lambda_right[i]))

\* process(), third loop: the lambdas of arm k are written to its way
WayTrimmed(way, c, k) ==
    IF c.at_start[k]
    THEN [way EXCEPT !.trim.start_left = c.lambda_left[k],
                     !.trim.start_right = c.lambda_right[k]]
    ELSE [way EXCEPT !.trim.end_left = c.lambda_left[k],
                     !.trim.end_right = c.lambda_right[k]]

\* process(), third loop: a way that is an arm twice keeps the later lambdas
WriteTrims(W, c) ==
    [w \in 1..Len(W) |->
        IF \E k \in 1..Len(c.ways) : c.ways[k] = w
        THEN WayTrimmed(W[w], c,
                        CHOOSE j \in 1..Len(c.ways) :
                           /\ c.ways[j] = w
                           /\ \A m \in j + 1..Len(c.ways) : c.ways[m] # w)
        ELSE W[w]]

\* process(): the result once the corners are computed
CrossingPlotted(W, c) ==
    [raised |-> FALSE, ways |-> WriteTrims(W, c), crossing |-> c]
CrossingWritten(h, W, c, r) ==
    IF r.raised THEN [raised |-> TRUE, ways |-> W, crossing |-> r.crossing]
    ELSE CrossingPlotted(W,
             [r.crossing EXCEPT
                !.plot_first = [i \in 1..Len(c.ways) |->
                                   PlotEnd(h, W, r.crossing, i, FALSE)],
                !.plot_last  = [i \in 1..Len(c.ways) |->
                                   PlotEnd(h, W, r.crossing, SecondWay(c, i), TRUE)],
                !.processed  = TRUE])

(* Crossing.process() of a crossing that is no roundabout: [raised, ways,  *)
(* crossing].  The arc of each corner (rows 1..-2 of parms.plot) is a      *)
(* function of circle, radii and angles and is not stored a second time.   *)
CrossingProcess(h, W, c) ==
    CrossingWritten(h, W, c,
        ProcessCorners(h, W, [c EXCEPT !.radius = ComputeRadius(W, c)], 1))

\* every arm of the crossing has an exact, positive length, now and when
\* the crossing was constructed, and no corner needs a number beyond reach
CrossingMeasurable(h, W, c) ==
    \A i \in 1..Len(c.ways) :
        /\ Len(W[c.ways[i]].vertices) >= 2
        /\ LET d == CrossingDirectionAt(h, W[c.ways[i]], c.at_start[i])
           IN  d.dx * d.dx + d.dy * d.dy > 0 /\ IsSquare(d.dx * d.dx + d.dy * d.dy)
        /\ IsSquare(AngleDir(c.angles[i]).dx * AngleDir(c.angles[i]).dx
                    + AngleDir(c.angles[i]).dy * AngleDir(c.angles[i]).dy)
        /\ LET a1 == c.angles[i]
               a2 == c.angles[SecondWay(c, i)]
               d1 == CrossingDirectionAt(h, W[c.ways[i]], c.at_start[i])
               d2 == CrossingDirectionAt(h, W[c.ways[SecondWay(c, i)]],
                                         c.at_start[SecondWay(c, i)])
           IN  \* an angle a rounding error below pi has a half-angle tangent
               \* of about 4.5e15: only the case in which the intersection
               \* raises before the tangent is used is followed
               (AngleSin(a1, a2) = 0 /\ AngleCos(a1, a2) < 0 /\ RoundsBelowPi(a1))
                   => d1.dx * d2.dy = d1.dy * d2.dx

-----------------------------------------------------------------------------
(* Connection (connection.py).                                             *)

\* a Connection.__init__ that takes the end-end case without comparing, and
\* so never raises
ConnectionCaseUnchecked(way1, way2) ==
    IF PyGet(way1.ivs, 0) = PyGet(way2.ivs, 0) THEN 1
    ELSE IF PyGet(way1.ivs, -1) = PyGet(way2.ivs, 0) THEN 2
    ELSE IF PyGet(way1.ivs, 0) = PyGet(way2.ivs, -1) THEN 3
    ELSE 4

\* which of the four start/end comparisons of Connection.__init__ is taken:
\* 1 start-start, 2 end-start, 3 start-end, 4 end-end, 0 none (raises)
ConnectionCase(way1, way2) ==
    IF PyGet(way1.ivs, 0) = PyGet(way2.ivs, 0) THEN 1
    ELSE IF PyGet(way1.ivs, -1) = PyGet(way2.ivs, 0) THEN 2
    ELSE IF PyGet(way1.ivs, 0) = PyGet(way2.ivs, -1) THEN 3
    ELSE IF PyGet(way1.ivs, -1) = PyGet(way2.ivs, -1) THEN 4
    ELSE 0

\* Connection.direction(i) for a way connected at its start or at its end
ConnectionDirection(h, way, at_start) ==
    IF at_start
    THEN [dx |-> h[PyGet(way.vertices, 1)].x - h[PyGet(way.vertices, 0)].x,
          dy |-> h[PyGet(way.vertices, 1)].y - h[PyGet(way.vertices, 0)].y]
    ELSE [dx |-> h[PyGet(way.vertices, -2)].x - h[PyGet(way.vertices, -1)].x,
          dy |-> h[PyGet(way.vertices, -2)].y - h[PyGet(way.vertices, -1)].y]

(* "np.abs(self.parms.angle) <= 3 * np.pi / 4" with angle the arccos of    *)
(* the normalised dot product: cos(angle) >= -1/sqrt(2), decided exactly.  *)
(* A zero-length direction gives nan, and the comparison is then false.    *)
TreatAsCrossing(d1, d2) ==
    LET dot == d1.dx * d2.dx + d1.dy * d2.dy
        n1  == d1.dx * d1.dx + d1.dy * d1.dy
        n2  == d2.dx * d2.dx + d2.dy * d2.dy
    IN  /\ n1 * n2 > 0
        /\ (dot >= 0 \/ 2 * dot * dot <= n1 * n2)

(* Connection.__init__(index, way1, way2); a and b are positions in W.     *)
(* Result: [raised, ways, connection], connection being a sequence of one  *)
(* Connection, or empty when InvalidConnectionError is raised.  The        *)
(* Connection's crossing is a sequence too: empty for None.  distance,     *)
(* offset_left and offset_right are parms.distance and the points          *)
(* (parms.xoffset_left, parms.yoffset_left) and (.._right, .._right).      *)
ConnectionInit(h, W, index, a, b) ==
    LET swap == W[a].nlanes > W[b].nlanes
        i1   == IF swap THEN b ELSE a
        i2   == IF swap THEN a ELSE b
        case == ConnectionCase(W[i1], W[i2])
        at1  == case \in {1, 3}
        at2  == case \in {1, 2}
        W1   == [W EXCEPT
                   ![i1] = IF at1 THEN [@ EXCEPT !.connection.i_start = index]
                                  ELSE [@ EXCEPT !.connection.i_end = index]]
        W2   == [W1 EXCEPT
                   ![i2] = IF at2 THEN [@ EXCEPT !.connection.i_start = index]
                                  ELSE [@ EXCEPT !.connection.i_end = index]]
        vertex == IF at1 THEN PyGet(W[i1].vertices, 0)
                         ELSE PyGet(W[i1].vertices, -1)
        d1   == ConnectionDirection(h, W[i1], at1)
        d2   == ConnectionDirection(h, W[i2], at2)
        cr   == CrossingInit(h, W2, 0, vertex, <<i1, i2>>)
        Conn(c) == [idx |-> index, way1 |-> i1, way2 |-> i2,
                    connection_at_start |-> <<at1, at2>>, vertex |-> vertex,
                    crossing |-> c,
                    distance |-> <<0, 0>>,
                    offset_left |-> Origin, offset_right |-> Origin]
    IN  IF case = 0
        THEN [raised |-> TRUE, ways |-> W, connection |-> <<>>]
        ELSE IF TreatAsCrossing(d1, d2)
        THEN [raised |-> FALSE, ways |-> cr.ways,
              connection |-> <<Conn(<<cr.crossing>>)>>]
        ELSE [raised |-> FALSE, ways |-> W2, connection |-> <<Conn(<<>>)>>]

\* ConnectionParameters.hlength_merge
HLENGTH_MERGE == 5

\* check_for_offset: way2.apply_offset([-offset, 0]) or ([0, offset])
ShiftWay2(h, W, c, offset) ==
    [W EXCEPT ![c.way2] =
        WayApplyOffset(h, W[c.way2],
            IF c.connection_at_start[2]
            THEN [list |-> TRUE, v |-> <<RNeg(offset), RInt(0)>>]
            ELSE [list |-> TRUE, v |-> <<RInt(0), offset>>]).way]

\* check_for_offset: way2 is shifted by half a lane where it has one lane
\* more than way1 (turnlanes is None)
CheckForOffset(h, W, c) ==
    IF W[c.way2].nlanes - W[c.way1].nlanes = 1
    THEN ShiftWay2(h, W, c, RMul(Rat(1, 2), W[c.way2].lanewidth))
    ELSE W

\* the Vertex at the connected end of a way
EndVertex(h, way, at_start) ==
    IF at_start THEN h[PyGet(way.vertices, 0)] ELSE h[PyGet(way.vertices, -1)]

\* the Vertex next to the connected end of a way
NextVertex(h, way, at_start) ==
    IF at_start THEN h[PyGet(way.vertices, 1)] ELSE h[PyGet(way.vertices, -2)]

\* the longest segment whose rounding is followed
MaxSegment == 200

(* hlength_merge / distance * distance - hlength_merge in units of 2^-50   *)
(* for a whole distance from 6 to MaxSegment, as IEEE double arithmetic    *)
(* rounds the quotient and then the product (to nearest, ties to even):    *)
(* 5 / 147 * 147 is 5.000000000000001, 5 / 77 * 77 is 4.999999999999999.   *)
MergeSlip(distance) ==
    IF distance = 147 THEN 1
    ELSE IF distance = 77 \/ distance = 154 THEN -1
    ELSE 0

\* "... + x1_way": the sum whole + slip * 2^-50 rounded to a double, which
\* keeps the slip below 8 and drops it (a tie, to even) from 8 on
RoundedSum(whole, slip) ==
    IF -8 < whole /\ whole < 8 THEN slip
    ELSE IF (whole = 8 /\ slip < 0) \/ (whole = -8 /\ slip > 0) THEN slip
    ELSE 0

\* np.hypot(x2_way - x1_way, y2_way - y1_way) minus the whole distance, in
\* units of 2^-50, along a direction d that is parallel to an axis
SlipAlong(p1, p2, d, distance) ==
    ((p2.xulp - p1.xulp) * d.dx + (p2.yulp - p1.yulp) * d.dy) \div distance

\* "hlength_merge / distance * (x2_way - x1_way)" minus its whole number:
\* a next vertex that lies 5 + 2^-50 from the end gives 5 again
ReachSlip(distance, slip) == IF slip = 0 THEN MergeSlip(distance) ELSE 0

\* compute_single_distance: Vertex(-1, xnew, ynew), hlength_merge from p1
\* along the direction d, the next vertex being distance + slip * 2^-50 away
MergeVertex(p1, d, distance, slip) ==
    [Vertex(-1, (HLENGTH_MERGE * d.dx) \div distance + p1.x,
                (HLENGTH_MERGE * d.dy) \div distance + p1.y) EXCEPT
        !.xulp = RoundedSum((HLENGTH_MERGE * d.dx) \div distance + p1.x,
                            (d.dx \div distance) * ReachSlip(distance, slip)),
        !.yulp = RoundedSum((HLENGTH_MERGE * d.dy) \div distance + p1.y,
                            (d.dy \div distance) * ReachSlip(distance, slip))]

\* compute_single_distance: what insert_vertex returned (r) is recorded
Inserted(st, w, h, r) ==
    [heap        |-> h,
     ways        |-> [st.ways EXCEPT ![w] = r.way],
     vertices    |-> Append(st.vertices, Len(h)),
     i_crossings |-> st.i_crossings
                       \o (IF r.start THEN <<r.way.crossing.i_start>> ELSE <<>>)
                       \o (IF r.end THEN <<r.way.crossing.i_end>> ELSE <<>>),
     distance    |-> Append(st.distance, HLENGTH_MERGE)]

\* compute_single_distance: the new vertex, the last of h, is inserted
\* next to the connected end
InsertNextToEnd(st, w, at_start, h) ==
    Inserted(st, w, h,
             WayInsertVertex(h, st.ways[w], Len(h), IF at_start THEN 1 ELSE -1))

\* compute_single_distance, from the end vertex p1, the direction d and the
\* distance to the next vertex, which is distance + slip * 2^-50
SingleDistance(st, w, at_start, p1, d, distance, slip) ==
    IF distance > HLENGTH_MERGE \/ (distance = HLENGTH_MERGE /\ slip > 0)
    THEN InsertNextToEnd(st, w, at_start,
                         Append(st.heap, MergeVertex(p1, d, distance, slip)))
    ELSE [st EXCEPT !.distance = Append(@, distance)]

SingleDistanceFrom(st, w, at_start, p1, p2, d, distance) ==
    SingleDistance(st, w, at_start, p1, d, distance, SlipAlong(p1, p2, d, distance))

SingleDistanceAlong(st, w, at_start, p1, d) ==
    SingleDistanceFrom(st, w, at_start, p1,
                       NextVertex(st.heap, st.ways[w], at_start), d, Hypot(d.dx, d.dy))

(* compute_single_distance(i_way, way, vertices, i_crossings); st is        *)
(* [heap, ways, vertices, i_crossings, distance], w the position of the    *)
(* way in W.  The new vertex is Vertex(-1, xnew, ynew), hlength_merge from *)
(* the connection's end along the way's first or last segment.             *)
ComputeSingleDistance(st, w, at_start) ==
    SingleDistanceAlong(st, w, at_start,
                        EndVertex(st.heap, st.ways[w], at_start),
                        ConnectionDirection(st.heap, st.ways[w], at_start))

\* compute_offset: way.parms.offset[0], or -way.parms.offset[-1]
EndOffset(way, at_start) ==
    IF at_start THEN PyGet(way.offset, 0) ELSE RNeg(PyGet(way.offset, -1))

\* compute_offset: the point reach to the left of p1, seen along d
OuterFrom(p1, d, n, reach) ==
    [x |-> RAdd(RInt(p1.x), RMul(Rat(-d.dy, n), reach)),
     y |-> RAdd(RInt(p1.y), RMul(Rat(d.dx, n), reach))]
OuterAlong(p1, d, reach) == OuterFrom(p1, d, Hypot(d.dx, d.dy), reach)
OuterOf(h, way, at_start, sign) ==
    OuterAlong(EndVertex(h, way, at_start), ConnectionDirection(h, way, at_start),
               RAdd(EndOffset(way, at_start), RMul(RInt(sign), way.hwidth)))

\* compute_offset: xoffsets[row, i_way], yoffsets[row, i_way] as a point;
\* row 0 is sign 1 and row 1 is sign -1
OuterPoint(h, W, c, i, sign) ==
    OuterOf(h, IF i = 1 THEN W[c.way1] ELSE W[c.way2], c.connection_at_start[i], sign)

\* compute_offset: the average of two points, weighted with the distances
WeightedBy(p, q, d1, d2, total) ==
    [x |-> RDiv(RAdd(RMul(p.x, d2), RMul(q.x, d1)), total),
     y |-> RDiv(RAdd(RMul(p.y, d2), RMul(q.y, d1)), total)]
WeightedPoint(p, q, distance) ==
    WeightedBy(p, q, RInt(distance[1]), RInt(distance[2]),
               RInt(distance[1] + distance[2]))

\* compute_offset
ComputeOffset(h, W, c) ==
    [c EXCEPT
       !.offset_left  = WeightedPoint(OuterPoint(h, W, c, 1, 1),
                                      OuterPoint(h, W, c, 2, -1), c.distance),
       !.offset_right = WeightedPoint(OuterPoint(h, W, c, 1, -1),
                                      OuterPoint(h, W, c, 2, 1), c.distance)]

\* set_offset, for way1 and for way2
SetOffset1(W, c) ==
    [W EXCEPT ![c.way1] =
        IF c.connection_at_start[1]
        THEN [@ EXCEPT !.corners.left_start = c.offset_left,
                       !.corners.right_start = c.offset_right]
        ELSE [@ EXCEPT !.corners.left_end = c.offset_right,
                       !.corners.right_end = c.offset_left]]
SetOffset2(W, c) ==
    [W EXCEPT ![c.way2] =
        IF c.connection_at_start[2]
        THEN [@ EXCEPT !.corners.left_start = c.offset_right,
                       !.corners.right_start = c.offset_left]
        ELSE [@ EXCEPT !.corners.left_end = c.offset_left,
                       !.corners.right_end = c.offset_right]]

\* set_offset: the corner points are written to parms.connection of the ways
SetOffset(W, c) == SetOffset2(SetOffset1(W, c), c)

\* process() of a connection that is treated as a crossing
DelegateProcessed(h, c, r) ==
    [raised |-> r.raised, heap |-> h, ways |-> r.ways,
     connection |-> [c EXCEPT !.crossing = <<r.crossing>>],
     vertices |-> <<>>, i_crossings |-> <<>>]

\* process(): compute_offset and set_offset, and what is returned
Merged(c, st) ==
    [raised |-> FALSE, heap |-> st.heap, ways |-> SetOffset(st.ways, c),
     connection |-> c,
     vertices |-> st.vertices, i_crossings |-> st.i_crossings]
MergeAt(c, st) ==
    Merged(ComputeOffset(st.heap, st.ways, [c EXCEPT !.distance = st.distance]), st)

\* process(): compute_distance_to_next_vertex, way1 before way2
MergeFrom(c, st) ==
    MergeAt(c, ComputeSingleDistance(
                   ComputeSingleDistance(st, c.way1, c.connection_at_start[1]),
                   c.way2, c.connection_at_start[2]))

(* Connection.process(): [raised, heap, ways, connection, vertices,        *)
(* i_crossings]; vertices are the references of the new Vertex objects.    *)
ConnectionProcess(h, W, c) ==
    IF c.crossing # <<>>
    THEN DelegateProcessed(h, c, CrossingProcess(h, W, c.crossing[1]))
    ELSE MergeFrom(c, [heap |-> h, ways |-> CheckForOffset(h, W, c),
                       vertices |-> <<>>, i_crossings |-> <<>>, distance |-> <<>>])

\* a direction of exact, positive length n along which the vertex at
\* hlength_merge has whole coordinates
WholeAlong(d, q) ==
    /\ q > 0
    /\ IsSquare(q)
    /\ (HLENGTH_MERGE * d.dx) % ISqrt(q) = 0
    /\ (HLENGTH_MERGE * d.dy) % ISqrt(q) = 0
DirectionMeasurable(d) == WholeAlong(d, d.dx * d.dx + d.dy * d.dy)

\* the rounding of compute_single_distance is followed: along an axis, from
\* an end vertex with whole coordinates, over a segment that is whole and
\* at most MaxSegment long or that a merge vertex ends
SlipMeasurable(p1, p2, d) ==
    /\ d.dx = 0 \/ d.dy = 0
    /\ p1.xulp = 0 /\ p1.yulp = 0
    /\ Hypot(d.dx, d.dy) <= MaxSegment
    /\ \/ p2.xulp = 0 /\ p2.yulp = 0
       \/ Hypot(d.dx, d.dy) = HLENGTH_MERGE

\* the end segment of a way has an exact, positive length and the vertex
\* hlength_merge along it has whole coordinates
EndMeasurable(h, way, at_start) ==
    /\ DirectionMeasurable(ConnectionDirection(h, way, at_start))
    /\ SlipMeasurable(EndVertex(h, way, at_start), NextVertex(h, way, at_start),
                      ConnectionDirection(h, way, at_start))

\* the numbers of Connection.process() are within reach of exact arithmetic
ConnectionMeasurable(h, W, c) ==
    IF c.crossing # <<>>
    THEN CrossingMeasurable(h, W, c.crossing[1])
    ELSE /\ EndMeasurable(h, W[c.way1], c.connection_at_start[1])
         /\ EndMeasurable(h, W[c.way2], c.connection_at_start[2])
         /\ OffsetMeasurable(h, W[c.way2])

-----------------------------------------------------------------------------
(* Inputs.                                                                 *)

(* Coordinates of the p-th vertex of an input (p = 0, 1, ...): 0, 1, 2 lie *)
(* on the x axis 30 apart, 3 and 4 lie 40 above and below vertex 1, the    *)
(* rest continue the x axis (tests: arms to (-10,0), (10,0), (0,10)).      *)
Coord(p) ==
    IF p = 3 THEN [x |-> 30, y |-> 40]
    ELSE IF p = 4 THEN [x |-> 30, y |-> -40]
    ELSE IF p < 3 THEN [x |-> 30 * p, y |-> 0]
    ELSE [x |-> 30 * (p - 2), y |-> 0]

SegmentExact(a, b) ==
    IsSquare((Coord(a).x - Coord(b).x) * (Coord(a).x - Coord(b).x)
             + (Coord(a).y - Coord(b).y) * (Coord(a).y - Coord(b).y))

\* ways of an input: 2..maxlen distinct vertex positions, segments measurable
Paths(nv, maxlen) ==
    UNION { { s \in [1..n -> 0..nv - 1] :
                /\ \A i, j \in 1..n : i # j => s[i] # s[j]
                /\ \A i \in 2..n : SegmentExact(s[i - 1], s[i]) }
            : n \in 2..maxlen }

\* a path that runs through the vertex list from front to back
Increasing(s) == \A i \in 2..Len(s) : s[i - 1] < s[i]

\* lane counts of the ways of an input
LaneCounts == {1, 2}

(* Vertex ids of an input, by position (generate_vertices gives 0, 1, ...; *)
(* the tests also number from 1): as listed, reversed, rotated, from 1.    *)
IdMaps(nv) ==
    { [p \in 1..nv |-> p - 1],
      [p \in 1..nv |-> nv - p],
      [p \in 1..nv |-> p % nv],
      [p \in 1..nv |-> p] }

\* ret before any call.  op names the call, w the way it is made on, index
\* its index argument, w2 a second way (the way split off, or way2 of a
\* Connection), arg the offset argument of apply_offset, xy the array a
\* call returns.  For a pass of RoadNetwork.process() over a Connection:
\* vertices and i_crossings are what Connection.process() returned, inserted
\* the ways it gave a vertex, again and again_conn the positions of the
\* Crossings and of the Connections that were processed again; log lists
\* those process() calls in the order they were made
NoCall == [op |-> "none", w |-> 0, index |-> 0, w2 |-> 0,
           arg |-> [list |-> FALSE, v |-> <<RInt(0)>>],
           raised |-> FALSE, start |-> FALSE, end |-> FALSE, xy |-> <<>>,
           vertices |-> <<>>, i_crossings |-> <<>>, inserted |-> {},
           again |-> {}, again_conn |-> {}, stale |-> {}, stale_conn |-> {},
           log |-> <<>>]

EmptyNet == [vertices |-> <<>>, ivs |-> <<>>, n_edges_per_vertex |-> <<>>]

\* i is the position process() has reached in the list of Connections
NoLoop == [i_way |-> 0, n_ways |-> 0, n_crossings |-> 0, i |-> 0]

\* the vertices and ways a caller builds: Vertex(id, x, y) per position,
\* Way([vertices...], WayOptions(nlanes=...)) per path
InputHeap(nv, ids) ==
    [p \in 1..nv |-> Vertex(ids[p], Coord(p - 1).x, Coord(p - 1).y)]
InputWays(h, paths, lanes) ==
    [k \in 1..Len(paths) |->
        WayInit(h, [i \in 1..Len(paths[k]) |-> paths[k][i] + 1], lanes[k])]

-----------------------------------------------------------------------------
(* RoadNetwork.__init__ (road_network.py), phase by phase.                 *)

\* list.index(x), as a position counted from 0
ListIndex(s, x) ==
    (CHOOSE i \in 1..Len(s) : s[i] = x /\ \A j \in 1..i - 1 : s[j] # x) - 1

(* parms.n_edges_per_vertex: row sums of mat_edges, whose (i, e) entry is  *)
(* set when the vertex at position i of the vertex list is an end of edge  *)
(* e; there is one edge per pair of consecutive vertices of every way.     *)
NEdgesPerVertex(W, ivs) ==
    [i \in 1..Len(ivs) |->
        Cardinality({ e \in (1..Len(W)) \X (1..MaxWayLen + MaxOps + 1) :
                        /\ e[2] < Len(W[e[1]].ivs)
                        /\ \/ ListIndex(ivs, W[e[1]].ivs[e[2]]) = i - 1
                           \/ ListIndex(ivs, W[e[1]].ivs[e[2] + 1]) = i - 1 })]

(* split_ways, the scan "for i_vertex in range(1, len(way.ivs) - 1)": the  *)
(* first i_vertex at which the loop stops, or -1 when it runs to its end.  *)
(* The degree is read at n_edges_per_vertex[way.ivs[i_vertex]].            *)
DegreeLookupFails(n_edges, way, i_vertex) ==
    ~PyInRange(n_edges, PyGet(way.ivs, i_vertex))

DegreeLookup(n_edges, way, i_vertex) ==
    PyGet(n_edges, PyGet(way.ivs, i_vertex))

SplitScanStops(n_edges, way, i_vertex) ==
    \/ DegreeLookupFails(n_edges, way, i_vertex)
    \/ DegreeLookup(n_edges, way, i_vertex) # 2

SplitScan(n_edges, way) ==
    LET stops == { i \in 1..Len(way.ivs) - 2 : SplitScanStops(n_edges, way, i) }
    IN  IF stops = {} THEN -1
        ELSE CHOOSE i \in stops : \A j \in stops : i <= j

(* construct_crossings, from position i of parms.ivs on (counted from 1):  *)
(* a Crossing for every vertex with more than 2 edges, over all ways that  *)
(* have the vertex's id among their ids.  st is [ways, crossings].         *)
WaysWithVertex(W, vidx) ==
    LET S == { w \in 1..Len(W) : \E k \in 1..Len(W[w].ivs) : W[w].ivs[k] = vidx }
        Nth(k) == CHOOSE w \in S : Cardinality({u \in S : u < w}) = k - 1
    IN  [k \in 1..Cardinality(S) |-> Nth(k)]

RECURSIVE ConstructCrossingsFrom(_, _, _, _)
ConstructCrossingsFrom(h, nt, st, i) ==
    IF i > Len(nt.ivs) THEN st
    ELSE IF nt.n_edges_per_vertex[i] > 2
    THEN LET c == CrossingInit(h, st.ways, Len(st.crossings), nt.vertices[i],
                               WaysWithVertex(st.ways, nt.ivs[i]))
         IN  ConstructCrossingsFrom(h, nt,
                 [ways |-> c.ways, crossings |-> Append(st.crossings, c.crossing)],
                 i + 1)
    ELSE ConstructCrossingsFrom(h, nt, st, i + 1)

(* construct_connections, one of the two if-blocks of the loop body for    *)
(* the way at position i (counted from 1): its start or its end.           *)
(* st is [ways, connections, n_crossings].                                 *)
ConnectionNeeded(nt, way, at_start) ==
    IF at_start
    THEN /\ nt.n_edges_per_vertex[ListIndex(nt.ivs, PyGet(way.ivs, 0)) + 1] = 2
         /\ way.connection.i_start = -1
    ELSE /\ nt.n_edges_per_vertex[ListIndex(nt.ivs, PyGet(way.ivs, -1)) + 1] = 2
         /\ way.connection.i_end = -1

\* the ways the inner loop "for j, way2 in enumerate(self.ways)" accepts
ConnectionPartners(W, i, at_start) ==
    LET v == IF at_start THEN PyGet(W[i].ivs, 0) ELSE PyGet(W[i].ivs, -1)
    IN  { j \in 1..Len(W) :
            j # i /\ (PyGet(W[j].ivs, 0) = v \/ PyGet(W[j].ivs, -1) = v) }

ConnectAt(h, nt, st, i, at_start) ==
    IF ~ConnectionNeeded(nt, st.ways[i], at_start)
       \/ ConnectionPartners(st.ways, i, at_start) = {}
    THEN st
    ELSE
      LET js == ConnectionPartners(st.ways, i, at_start)
          j  == CHOOSE a \in js : \A b \in js : a <= b
          r  == ConnectionInit(h, st.ways, Len(st.connections), i, j)
          c  == r.connection[1]
      IN  IF c.crossing # <<>>
          THEN [ways |-> r.ways,
                connections |-> Append(st.connections,
                    [c EXCEPT !.crossing = <<[c.crossing[1] EXCEPT !.idx = st.n_crossings]>>]),
                n_crossings |-> st.n_crossings + 1]
          ELSE [ways |-> r.ways,
                connections |-> Append(st.connections, c),
                n_crossings |-> st.n_crossings]

\* RoadNetwork.__init__ up to the call of split_ways
NetInit ==
    /\ pc = "new"
    /\ net' = [net EXCEPT
                 !.ivs = [p \in 1..Len(net.vertices) |-> heap[net.vertices[p]].idx],
                 !.n_edges_per_vertex =
                     NEdgesPerVertex(ways,
                         [p \in 1..Len(net.vertices) |-> heap[net.vertices[p]].idx])]
    /\ loop' = [NoLoop EXCEPT !.n_ways = Len(ways)]
    /\ pc' = "split_ways"
    /\ UNCHANGED <<heap, ways, crossings, connections, ret, nops>>

\* split_ways: one pass of the while loop that finds a vertex to split at
SplitWaysSplit ==
    /\ pc = "split_ways"
    /\ loop.i_way < loop.n_ways
    /\ LET way == ways[loop.i_way + 1]
           at  == SplitScan(net.n_edges_per_vertex, way)
           r   == WaySplit(heap, way, at)
       IN  /\ at # -1
           /\ ~DegreeLookupFails(net.n_edges_per_vertex, way, at)
           /\ heap' = r.heap
           /\ ways' = Append([ways EXCEPT ![loop.i_way + 1] = r.self], r.way)
    /\ loop' = [loop EXCEPT !.i_way = @ + 1, !.n_ways = @ + 1]
    /\ UNCHANGED <<crossings, connections, net, pc, ret, nops>>

\* split_ways: one pass of the while loop over a way that needs no split
SplitWaysSkip ==
    /\ pc = "split_ways"
    /\ loop.i_way < loop.n_ways
    /\ SplitScan(net.n_edges_per_vertex, ways[loop.i_way + 1]) = -1
    /\ loop' = [loop EXCEPT !.i_way = @ + 1]
    /\ UNCHANGED <<heap, ways, crossings, connections, net, pc, ret, nops>>

\* split_ways: the degree lookup raises IndexError, and so does __init__
SplitWaysRaise ==
    /\ pc = "split_ways"
    /\ loop.i_way < loop.n_ways
    /\ LET way == ways[loop.i_way + 1]
           at  == SplitScan(net.n_edges_per_vertex, way)
       IN  at # -1 /\ DegreeLookupFails(net.n_edges_per_vertex, way, at)
    /\ pc' = "raised"
    /\ UNCHANGED <<heap, ways, crossings, connections, net, loop, ret, nops>>

\* self.crossings = self.construct_crossings(), once split_ways has returned
ConstructCrossings ==
    /\ pc = "split_ways"
    /\ loop.i_way = loop.n_ways
    /\ LET st == ConstructCrossingsFrom(heap, net,
                     [ways |-> ways, crossings |-> <<>>], 1)
       IN  /\ ways' = st.ways
           /\ crossings' = st.crossings
           /\ loop' = [loop EXCEPT !.i_way = 0, !.n_crossings = Len(st.crossings)]
    /\ pc' = "construct_connections"
    /\ UNCHANGED <<heap, connections, net, ret, nops>>

\* construct_connections: one pass of "for i_way, way in enumerate(self.ways)";
\* the constructor returns after the last
ConstructConnectionsStep ==
    /\ pc = "construct_connections"
    /\ loop.i_way < Len(ways)
    /\ LET i   == loop.i_way + 1
           st0 == [ways |-> ways, connections |-> connections,
                   n_crossings |-> loop.n_crossings]
           st1 == ConnectAt(heap, net, st0, i, TRUE)
           st2 == ConnectAt(heap, net, st1, i, FALSE)
       IN  /\ ways' = st2.ways
           /\ connections' = st2.connections
           /\ loop' = [loop EXCEPT !.i_way = @ + 1, !.n_crossings = st2.n_crossings]
    /\ pc' = IF loop.i_way + 1 = Len(ways) THEN "constructed"
                                           ELSE "construct_connections"
    /\ UNCHANGED <<heap, crossings, net, ret, nops>>

InitNet ==
    \E ids \in IdMaps(NumVertices) :
    \E n \in 1..MaxWays :
    \E paths \in [1..n -> Paths(NumVertices, MaxWayLen)] :
    \E lanes \in [1..n -> LaneCounts] :
        /\ heap = InputHeap(NumVertices, ids)
        /\ ways = InputWays(InputHeap(NumVertices, ids), paths, lanes)
        /\ net = [EmptyNet EXCEPT !.vertices = [p \in 1..NumVertices |-> p]]
    /\ crossings = <<>>
    /\ connections = <<>>
    /\ pc = "new"
    /\ loop = NoLoop
    /\ ret = NoCall
    /\ nops = 0

NextNet ==
    \/ NetInit
    \/ SplitWaysSplit
    \/ SplitWaysSkip
    \/ SplitWaysRaise
    \/ ConstructCrossings
    \/ ConstructConnectionsStep

SpecNet == InitNet /\ [][NextNet]_vars

-----------------------------------------------------------------------------
(* A client of the Way / Crossing / Connection API.                        *)

\* index arguments tried on a way of n vertices
Indices(n) == -(n + MaxIndexPad)..(n + MaxIndexPad - 1)

\* where the client places a vertex it inserts
InsertPoints == { [x |-> 15, y |-> 0] }

\* offset arguments: a scalar, and lists of 1, 2, ... values 1, 3, 5, ...
OffsetSpecs ==
    { [list |-> FALSE, v |-> <<RInt(2)>>] } \cup
    { [list |-> TRUE, v |-> [k \in 1..n |-> RInt(2 * k - 1)]] :
        n \in 1..MaxWayLen + 1 }

\* ids the client gives the Crossings and Connections it constructs
ObjectIds == {0, 1}

CanCall == pc = "api" /\ nops < MaxOps

\* way_new = way.split(index)
Split(w, index) ==
    /\ CanCall
    /\ LET r == WaySplit(heap, ways[w], index)
       IN  /\ heap' = r.heap
           /\ ways' = Append([ways EXCEPT ![w] = r.self], r.way)
    /\ ret' = [NoCall EXCEPT !.op = "split", !.w = w, !.index = index,
                             !.w2 = Len(ways) + 1]
    /\ nops' = nops + 1
    /\ UNCHANGED <<crossings, connections, net, pc, loop>>

\* way.insert_vertex(Vertex(id, x, y), index)
InsertVertex(w, pt, index) ==
    /\ CanCall
    /\ LET h == Append(heap, Vertex(Len(heap), pt.x, pt.y))
           r == WayInsertVertex(h, ways[w], Len(h), index)
       IN  /\ InsertMeasurable(h, ways[w], Len(h), index)
           /\ heap' = h
           /\ ways' = [ways EXCEPT ![w] = r.way]
           /\ ret' = [NoCall EXCEPT !.op = "insert_vertex", !.w = w,
                                    !.index = index, !.raised = r.raised,
                                    !.start = r.start, !.end = r.end]
    /\ nops' = nops + 1
    /\ UNCHANGED <<crossings, connections, net, pc, loop>>

\* way.pop_vertex(index)
PopVertex(w, index) ==
    /\ CanCall
    /\ LET r == WayPopVertex(ways[w], index)
       IN  /\ ways' = [ways EXCEPT ![w] = r.way]
           /\ ret' = [NoCall EXCEPT !.op = "pop_vertex", !.w = w,
                                    !.index = index, !.raised = r.raised,
                                    !.start = r.start, !.end = r.end]
    /\ nops' = nops + 1
    /\ UNCHANGED <<heap, crossings, connections, net, pc, loop>>

\* way.apply_offset(offset)
ApplyOffset(w, spec) ==
    /\ CanCall
    /\ IF spec.list /\ Len(spec.v) = 2 THEN OffsetMeasurable(heap, ways[w]) ELSE TRUE
    /\ LET r == WayApplyOffset(heap, ways[w], spec)
       IN  /\ ways' = [ways EXCEPT ![w] = r.way]
           /\ ret' = [NoCall EXCEPT !.op = "apply_offset", !.w = w,
                                    !.arg = spec, !.raised = r.raised]
    /\ nops' = nops + 1
    /\ UNCHANGED <<heap, crossings, connections, net, pc, loop>>

\* Crossing(index, vertex, ways) at an end vertex of way w, over the ways
\* of the pool that start or end at a vertex with that id
NewCrossing(index, w, at_start) ==
    /\ CanCall
    /\ Len(ways[w].vertices) >= 2
    /\ LET vertex == IF at_start THEN PyGet(ways[w].vertices, 0)
                                 ELSE PyGet(ways[w].vertices, -1)
           vid    == heap[vertex].idx
           S      == { u \in 1..Len(ways) :
                         /\ Len(ways[u].vertices) >= 2
                         /\ (PyGet(ways[u].ivs, 0) = vid \/ PyGet(ways[u].ivs, -1) = vid) }
           wis    == [k \in 1..Cardinality(S) |->
                         CHOOSE u \in S : Cardinality({t \in S : t < u}) = k - 1]
           r      == CrossingInit(heap, ways, index, vertex, wis)
       IN  /\ ways' = r.ways
           /\ crossings' = Append(crossings, r.crossing)
    /\ ret' = [NoCall EXCEPT !.op = "crossing", !.w = w, !.index = index]
    /\ nops' = nops + 1
    /\ UNCHANGED <<heap, connections, net, pc, loop>>

\* Connection(index, way1, way2)
NewConnection(index, a, b) ==
    /\ CanCall
    /\ a # b
    /\ Len(ways[a].vertices) >= 2
    /\ Len(ways[b].vertices) >= 2
    /\ LET r == ConnectionInit(heap, ways, index, a, b)
       IN  /\ ways' = r.ways
           /\ connections' = connections \o r.connection
           /\ ret' = [NoCall EXCEPT !.op = "connection", !.w = a, !.w2 = b,
                                    !.index = index, !.raised = r.raised]
    /\ nops' = nops + 1
    /\ UNCHANGED <<heap, crossings, net, pc, loop>>

\* vertex.xcoordinate = ..., an in-place change of a Vertex the client holds
MoveVertex(v) ==
    /\ CanCall
    /\ heap' = [heap EXCEPT ![v].x = @ + 15]
    /\ ret' = [NoCall EXCEPT !.op = "move_vertex", !.index = v]
    /\ nops' = nops + 1
    /\ UNCHANGED <<ways, crossings, connections, net, pc, loop>>

\* the pool: vertices generate_vertices would make, and ways over them, the
\* k-th way having k lanes
InitWay ==
    \E n \in 1..MaxPool :
    \E paths \in [1..n -> { s \in Paths(PoolVertices, MaxWayLen) : Increasing(s) }] :
    \E lanes \in { [k \in 1..n |-> k] } :
        /\ heap = InputHeap(PoolVertices, [p \in 1..PoolVertices |-> p - 1])
        /\ ways = InputWays(InputHeap(PoolVertices, [p \in 1..PoolVertices |-> p - 1]),
                            paths, lanes)
    /\ crossings = <<>>
    /\ connections = <<>>
    /\ net = EmptyNet
    /\ pc = "api"
    /\ loop = NoLoop
    /\ ret = NoCall
    /\ nops = 0

NextWay ==
    \/ \E w \in 1..Len(ways) : \E index \in Indices(Len(ways[w].ivs)) :
           Split(w, index)
    \/ \E w \in 1..Len(ways) : \E pt \in InsertPoints :
       \E index \in Indices(Len(ways[w].ivs)) :
           InsertVertex(w, pt, index)
    \/ \E w \in 1..Len(ways) : \E index \in Indices(Len(ways[w].ivs)) :
           PopVertex(w, index)
    \/ \E w \in 1..Len(ways) : \E spec \in OffsetSpecs :
           ApplyOffset(w, spec)
    \/ \E index \in ObjectIds : \E w \in 1..Len(ways) : \E at_start \in BOOLEAN :
           NewCrossing(index, w, at_start)
    \/ \E index \in ObjectIds : \E a, b \in 1..Len(ways) :
           NewConnection(index, a, b)
    \/ \E v \in 1..Len(heap) :
           MoveVertex(v)

SpecWay == InitWay /\ [][NextWay]_vars

-----------------------------------------------------------------------------
(* A client of one Crossing: it constructs the ways and the Crossing,      *)
(* then calls process() and changes ways and vertices in between.          *)

\* calls the client of a Crossing makes in all
MaxCrossOps == 4

\* an arm of a crossing at (0, 0): the vertex next to the crossing, the
\* number of vertices of the way, and whether the way starts at the crossing
Arm(x, y, len, from) == [x |-> x, y |-> y, len |-> len, from |-> from]

(* The crossings tried: the three-way crossing of the tests, two opposite  *)
(* arms on an axis and on a diagonal, a corner, a four-way crossing, and a *)
(* corner of two ways that are shorter than they are wide.                 *)
Layouts ==
    { << Arm(-10, 0, 2, TRUE), Arm(0, 10, 2, TRUE), Arm(10, 0, 2, FALSE) >>,
      << Arm(-10, 0, 2, TRUE), Arm(10, 0, 2, FALSE) >>,
      << Arm(8, 15, 2, TRUE), Arm(-8, -15, 2, FALSE) >>,
      << Arm(0, 10, 3, TRUE), Arm(10, 0, 2, FALSE) >>,
      << Arm(-10, 0, 2, TRUE), Arm(0, 10, 2, TRUE), Arm(10, 0, 2, FALSE),
         Arm(0, -10, 2, FALSE) >>,
      << Arm(0, 1, 2, TRUE), Arm(1, 0, 2, FALSE) >> }

\* the ways tried: a road with the default options, a blue road of one
\* lane, a footway
Kinds == { WayOptions("none", 0, "default"), WayOptions("none", 1, "blue"),
           WayOptions("footway", 0, "default") }

\* the points of the arms from k on, each arm from the crossing outwards
RECURSIVE ArmPoints(_, _)
ArmPoints(arms, k) ==
    IF k > Len(arms) THEN <<>>
    ELSE (IF arms[k].len = 2
          THEN << [x |-> arms[k].x, y |-> arms[k].y] >>
          ELSE << [x |-> arms[k].x, y |-> arms[k].y],
                  [x |-> 2 * arms[k].x, y |-> 2 * arms[k].y] >>)
         \o ArmPoints(arms, k + 1)

\* Vertex(0, 0, 0) for the crossing, then one Vertex per point of the arms
CrossHeap(arms) ==
    LET pts == << [x |-> 0, y |-> 0] >> \o ArmPoints(arms, 1)
    IN  [p \in 1..Len(pts) |-> Vertex(p - 1, pts[p].x, pts[p].y)]

\* the vertices of arm k, in the direction of the way
ArmVertices(arms, k) ==
    LET s   == 2 + Len(ArmPoints(SubSeq(arms, 1, k - 1), 1))
        out == IF arms[k].len = 2 THEN <<1, s>> ELSE <<1, s, s + 1>>
    IN  IF arms[k].from THEN out
        ELSE [i \in 1..Len(out) |-> out[Len(out) + 1 - i]]

CrossWays(arms, kinds) ==
    [k \in 1..Len(arms) |->
        WayInitOptions(CrossHeap(arms), ArmVertices(arms, k), kinds[k])]

\* crossing.process()
ProcessCrossing(c) ==
    /\ pc = "api"
    /\ nops < MaxCrossOps
    /\ CrossingMeasurable(heap, ways, crossings[c]) = TRUE
    /\ \E r \in { CrossingProcess(heap, ways, crossings[c]) } :
           /\ ways' = r.ways
           /\ crossings' = [crossings EXCEPT ![c] = r.crossing]
           /\ ret' = [NoCall EXCEPT !.op = "process", !.index = c,
                                    !.raised = r.raised]
    /\ nops' = nops + 1
    /\ UNCHANGED <<heap, connections, net, pc, loop>>

\* the ways, in the order they are passed, and Crossing(0, vertex, ways)
InitCross ==
    \E arms \in Layouts :
    \E kinds \in [1..Len(arms) -> Kinds] :
    \E r \in { CrossingInit(CrossHeap(arms), CrossWays(arms, kinds), 0, 1,
                            [k \in 1..Len(arms) |-> k]) } :
        /\ heap = CrossHeap(arms)
        /\ ways = r.ways
        /\ crossings = << r.crossing >>
    /\ connections = <<>>
    /\ net = EmptyNet
    /\ pc = "api"
    /\ loop = NoLoop
    /\ ret = NoCall
    /\ nops = 0

NextCross ==
    \/ \E c \in 1..Len(crossings) :
           ProcessCrossing(c)
    \/ \E v \in 1..Len(heap) :
           MoveVertex(v)
    \/ \E w \in 1..Len(ways) : \E pt \in InsertPoints : \E index \in {1, -1} :
           InsertVertex(w, pt, index)
    \/ \E w \in 1..Len(ways) : \E index \in {1, -2} :
           PopVertex(w, index)

SpecCross == InitCross /\ [][NextCross]_vars

-----------------------------------------------------------------------------
(* A client of one Way and of apply_offset: it builds a way along a line,  *)
(* splits it, processes the pieces and shifts the line.                    *)

\* the points a line is laid through
LinePoints ==
    { <<-10, 0>>, <<0, 0>>, <<10, 0>>, <<5, 0>>, <<0, 10>>, <<10, 10>>, <<13, 4>> }

\* vertices of a line
MaxLineLen == 4

\* lines of 2..MaxLineLen different points
Lines ==
    UNION { { s \in [1..n -> LinePoints] : \A i, j \in 1..n : i # j => s[i] # s[j] }
            : n \in 2..MaxLineLen }

LineHeap(line) == [p \in 1..Len(line) |-> Vertex(p - 1, line[p][1], line[p][2])]

\* the uniform offsets tried
LineOffsets == { RInt(0), RInt(2), Rat(-14, 5) }

\* way.process()
ProcessWay(w) ==
    /\ CanCall
    /\ LineMeasurable(VertexXY(heap, ways[w])) = TRUE
    /\ LineMeasurable(WayGetXY(heap, ways[w])) = TRUE
    /\ ways' = [ways EXCEPT ![w] = WayProcess(heap, ways[w])]
    /\ ret' = [NoCall EXCEPT !.op = "process_way", !.w = w]
    /\ nops' = nops + 1
    /\ UNCHANGED <<heap, crossings, connections, net, pc, loop>>

\* apply_offset(xy, o) on the array of the vertices of way w
OffsetLine(w, o) ==
    /\ CanCall
    /\ LineMeasurable(VertexXY(heap, ways[w])) = TRUE
    /\ ret' = [NoCall EXCEPT
                 !.op = "offset_line", !.w = w,
                 !.arg = [list |-> FALSE, v |-> <<o>>],
                 !.xy = ApplyOffsetXY(VertexXY(heap, ways[w]),
                                      Uniform(Len(ways[w].vertices), o))]
    /\ nops' = nops + 1
    /\ UNCHANGED <<heap, ways, crossings, connections, net, pc, loop>>

InitLine ==
    \E line \in Lines :
    \E nlanes \in LaneCounts :
        /\ LineMeasurable(VertexXY(LineHeap(line),
                                   WayInit(LineHeap(line), [p \in 1..Len(line) |-> p], nlanes)))
        /\ heap = LineHeap(line)
        /\ ways = << WayInit(LineHeap(line), [p \in 1..Len(line) |-> p], nlanes) >>
    /\ crossings = <<>>
    /\ connections = <<>>
    /\ net = EmptyNet
    /\ pc = "api"
    /\ loop = NoLoop
    /\ ret = NoCall
    /\ nops = 0

NextLine ==
    \/ \E w \in 1..Len(ways) : \E index \in 1..Len(ways[w].vertices) - 2 :
           Split(w, index)
    \/ \E w \in 1..Len(ways) :
           ProcessWay(w)
    \/ \E w \in 1..Len(ways) : \E o \in LineOffsets :
           OffsetLine(w, o)

SpecLine == InitLine /\ [][NextLine]_vars

-----------------------------------------------------------------------------
(* RoadNetwork.process() (road_network.py), loop by loop, on networks      *)
(* that the constructor has built.                                         *)

\* calls of process() on one network
MaxProcess == 2

(* "for crossing in self.crossings: if crossing.idx in i_crossings:        *)
(* crossing.process()", from position k on.  st is [ways, crossings,       *)
(* raised, measurable, again]: again collects the positions processed,     *)
(* measurable turns false at a Crossing that exact arithmetic cannot       *)
(* follow.                                                                 *)
RECURSIVE ProcessCrossingsIn(_, _, _, _)
CrossingDoneIn(h, st, ids, k, r) ==
    ProcessCrossingsIn(h,
        [st EXCEPT !.ways = r.ways,
                   !.crossings[k] = r.crossing,
                   !.raised = r.raised,
                   !.again = Append(@, k)],
        ids, k + 1)
ProcessCrossingsIn(h, st, ids, k) ==
    IF k > Len(st.crossings) \/ st.raised \/ ~st.measurable THEN st
    ELSE IF st.crossings[k].idx \notin ids THEN ProcessCrossingsIn(h, st, ids, k + 1)
    ELSE IF ~CrossingMeasurable(h, st.ways, st.crossings[k])
    THEN [st EXCEPT !.measurable = FALSE]
    ELSE CrossingDoneIn(h, st, ids, k, CrossingProcess(h, st.ways, st.crossings[k]))

\* a slice that takes every Connection of the list
UpToAll(K, i) == Len(K)

\* self.connections[:i]: the position of its last Connection
UpTo(K, i) == IF i < Len(K) THEN i ELSE Len(K)

(* "for other_connection in self.connections[:i]: if its crossing is not   *)
(* None and crossing.idx in i_crossings: other_connection.process()",      *)
(* from position k on; last is i.  st is [ways, connections, raised,       *)
(* measurable, again].                                                     *)
RECURSIVE ProcessConnectionsIn(_, _, _, _, _)
ConnectionDoneIn(h, st, ids, k, last, r) ==
    ProcessConnectionsIn(h,
        [st EXCEPT !.ways = r.ways,
                   !.connections[k] = r.connection,
                   !.raised = r.raised,
                   !.again = Append(@, k)],
        ids, k + 1, last)
ProcessConnectionsIn(h, st, ids, k, last) ==
    IF k > last \/ st.raised \/ ~st.measurable THEN st
    ELSE IF st.connections[k].crossing = <<>>
    THEN ProcessConnectionsIn(h, st, ids, k + 1, last)
    ELSE IF st.connections[k].crossing[1].idx \notin ids
    THEN ProcessConnectionsIn(h, st, ids, k + 1, last)
    ELSE IF ~ConnectionMeasurable(h, st.ways, st.connections[k])
    THEN [st EXCEPT !.measurable = FALSE]
    ELSE ConnectionDoneIn(h, st, ids, k, last,
                          ConnectionProcess(h, st.ways, st.connections[k]))

\* np.max of a list
SeqMax(s) == CHOOSE m \in {s[k] : k \in 1..Len(s)} : \A k \in 1..Len(s) : s[k] <= m

\* a registration that gives the new vertex the largest id itself
RegisteredAtMax(st, v, idx) ==
    [heap |-> [st.heap EXCEPT ![v].idx = idx - 1],
     net  |-> [st.net EXCEPT !.vertices = Append(@, v), !.ivs = Append(@, idx - 1)]]

(* "for vertex in new_vertices": each gets the largest id of parms.ivs     *)
(* plus one and is appended to the network.  st is [heap, net].            *)
Registered(st, v, idx) ==
    [heap |-> [st.heap EXCEPT ![v].idx = idx],
     net  |-> [st.net EXCEPT !.vertices = Append(@, v), !.ivs = Append(@, idx)]]
RECURSIVE RegisterVertices(_, _, _)
RegisterVertices(st, vertices, k) ==
    IF k > Len(vertices) THEN st
    ELSE RegisterVertices(Registered(st, vertices[k], SeqMax(st.net.ivs) + 1),
                          vertices, k + 1)

\* the elements of a list
Elements(s) == { s[k] : k \in 1..Len(s) }

\* the process() calls made on the objects at the positions of s, in order
Logged(kind, s) == [k \in 1..Len(s) |-> [kind |-> kind, k |-> s[k]]]

\* one of the vertices new is the second vertex of the way, counted from
\* the end where the way has the vertex of id vidx
SecondFrom(way, vidx, new) ==
    \/ way.ivs[1] = vidx /\ way.vertices[2] \in new
    \/ way.ivs[Len(way.ivs)] = vidx
          /\ way.vertices[Len(way.vertices) - 1] \in new

\* Crossing X has an incident way whose second vertex from X is one of new
Outdated(h, W, X, new) ==
    \E k \in 1..Len(X.ways) : SecondFrom(W[X.ways[k]], h[X.vertex].idx, new)

\* the positions of the Crossings of self.crossings, and of the Connections
\* with a delegate Crossing, that the insertion of the vertices new outdates
OutdatedCrossings(h, W, C, new) ==
    { k \in 1..Len(C) : Outdated(h, W, C[k], new) }
OutdatedConnections(h, W, K, new) ==
    { k \in 1..Len(K) :
        IF K[k].crossing = <<>> THEN FALSE
        ELSE Outdated(h, W, K[k].crossing[1], new) }

(* process(), first loop: every Crossing of self.crossings is processed.   *)
(* ret.stale and ret.stale_conn record, during a pass, the Crossings and   *)
(* the Connections with a delegate Crossing that were outdated by an       *)
(* insertion and have not been processed since.                            *)
ProcessAllCrossings ==
    /\ pc \in {"constructed", "processed"}
    /\ nops < MaxProcess
    /\ \E st \in { ProcessCrossingsIn(heap,
                       [ways |-> ways, crossings |-> crossings, raised |-> FALSE,
                        measurable |-> TRUE, again |-> <<>>],
                       { crossings[k].idx : k \in 1..Len(crossings) }, 1) } :
           /\ st.measurable
           /\ ways' = st.ways
           /\ crossings' = st.crossings
           /\ pc' = IF st.raised THEN "raised" ELSE "process_connections"
           /\ ret' = [NoCall EXCEPT !.op = "process", !.raised = st.raised]
    /\ loop' = [loop EXCEPT !.i = 0]
    /\ nops' = nops + 1
    /\ UNCHANGED <<heap, connections, net>>

\* process(), second loop: one pass of "for i, connection in
\* enumerate(self.connections)": the connection is processed (r), its
\* vertices are registered (rg), the crossings (s1) and the earlier
\* connections (s2) named in i_crossings are processed again
ProcessConnection ==
    /\ pc = "process_connections"
    /\ loop.i < Len(connections)
    /\ ConnectionMeasurable(heap, ways, connections[loop.i + 1]) = TRUE
    /\ \E r \in { ConnectionProcess(heap, ways, connections[loop.i + 1]) } :
       \E rg \in { RegisterVertices([heap |-> r.heap, net |-> net], r.vertices, 1) } :
       \E s1 \in { ProcessCrossingsIn(rg.heap,
                       [ways |-> r.ways, crossings |-> crossings,
                        raised |-> r.raised, measurable |-> TRUE, again |-> <<>>],
                       Elements(r.i_crossings), 1) } :
       \E s2 \in { ProcessConnectionsIn(rg.heap,
                       [ways |-> s1.ways,
                        connections |-> [connections EXCEPT ![loop.i + 1] = r.connection],
                        raised |-> s1.raised, measurable |-> s1.measurable,
                        again |-> <<>>],
                       Elements(r.i_crossings), 1, UpTo(connections, loop.i)) } :
           /\ s2.measurable
           /\ heap' = rg.heap
           /\ net' = rg.net
           /\ ways' = s2.ways
           /\ crossings' = s1.crossings
           /\ connections' = s2.connections
           /\ pc' = IF s2.raised THEN "raised" ELSE "process_connections"
           /\ ret' = [NoCall EXCEPT
                        !.op = "process_connection", !.index = loop.i + 1,
                        !.raised = s2.raised,
                        !.vertices = r.vertices, !.i_crossings = r.i_crossings,
                        !.inserted = { w \in 1..Len(ways) :
                                          Len(r.ways[w].vertices) > Len(ways[w].vertices) },
                        !.again = Elements(s1.again),
                        !.again_conn = Elements(s2.again),
                        !.log = Logged("crossing", s1.again)
                                  \o Logged("connection", s2.again),
                        !.stale =
                            (ret.stale
                               \cup OutdatedCrossings(heap, r.ways, crossings,
                                                      Elements(r.vertices)))
                            \ Elements(s1.again),
                        !.stale_conn =
                            ((ret.stale_conn \ {loop.i + 1})
                               \cup OutdatedConnections(heap, r.ways, connections,
                                                        Elements(r.vertices)))
                            \ Elements(s2.again)]
    /\ loop' = [loop EXCEPT !.i = @ + 1]
    /\ UNCHANGED nops

\* a process() whose loop over the ways comes before the loop over the
\* Connections
ProcessWaysEarly ==
    /\ pc = "process_connections"
    /\ loop.i = 0
    /\ (\A w \in 1..Len(ways) :
           /\ LineMeasurable(VertexXY(heap, ways[w]))
           /\ LineMeasurable(WayGetXY(heap, ways[w]))) = TRUE
    /\ ways' = [w \in 1..Len(ways) |-> WayProcess(heap, ways[w])]
    /\ pc' = "processed"
    /\ ret' = [NoCall EXCEPT !.op = "ways", !.stale = ret.stale,
                              !.stale_conn = ret.stale_conn]
    /\ UNCHANGED <<heap, crossings, connections, net, loop, nops>>

\* process(), third loop: every way is processed, and process() returns
ProcessWays ==
    /\ pc = "process_connections"
    /\ loop.i = Len(connections)
    /\ (\A w \in 1..Len(ways) :
           /\ LineMeasurable(VertexXY(heap, ways[w]))
           /\ LineMeasurable(WayGetXY(heap, ways[w]))) = TRUE
    /\ ways' = [w \in 1..Len(ways) |-> WayProcess(heap, ways[w])]
    /\ pc' = "processed"
    /\ ret' = [NoCall EXCEPT !.op = "ways", !.stale = ret.stale,
                              !.stale_conn = ret.stale_conn]
    /\ UNCHANGED <<heap, crossings, connections, net, loop, nops>>

(* The networks: points and, per way, the positions of its points.         *)
(* A line of two and of three ways, a short first way, a way of three      *)
(* points whose middle point is the last of the network, a junction of     *)
(* three arms with a way that continues one arm, an                        *)
(* L-shaped and a U-shaped road in three orders of their ways, and a       *)
(* junction next to a bend.                                                *)
Scenes ==
    { [pts |-> << <<0, 0>>, <<30, 0>>, <<60, 0>> >>,
       paths |-> << <<1, 2>>, <<2, 3>> >>],
      [pts |-> << <<0, 0>>, <<5, 0>>, <<35, 0>> >>,
       paths |-> << <<1, 2>>, <<3, 2>> >>],
      [pts |-> << <<0, 0>>, <<60, 0>>, <<90, 0>>, <<30, 0>> >>,
       paths |-> << <<1, 4, 2>>, <<2, 3>> >>],
      [pts |-> << <<0, 0>>, <<30, 0>>, <<60, 0>>, <<30, 40>>, <<90, 0>> >>,
       paths |-> << <<1, 2, 3>>, <<4, 2>>, <<3, 5>> >>],
      [pts |-> << <<0, 40>>, <<0, 0>>, <<30, 0>>, <<60, 0>> >>,
       paths |-> << <<1, 2>>, <<2, 3>>, <<3, 4>> >>],
      [pts |-> << <<0, 40>>, <<0, 0>>, <<30, 0>>, <<60, 0>>, <<60, 40>> >>,
       paths |-> << <<1, 2>>, <<2, 3>>, <<3, 4>>, <<4, 5>> >>],
      [pts |-> << <<0, 40>>, <<0, 0>>, <<30, 0>>, <<60, 0>>, <<60, 40>> >>,
       paths |-> << <<1, 2>>, <<5, 4>>, <<2, 3>>, <<3, 4>> >>],
      [pts |-> << <<0, 40>>, <<0, 0>>, <<30, 0>>, <<60, 0>>, <<60, 40>> >>,
       paths |-> << <<3, 2>>, <<3, 4>>, <<1, 2>>, <<4, 5>> >>],
      [pts |-> << <<0, 0>>, <<30, 0>>, <<60, 0>>, <<30, 40>>, <<90, 0>>, <<90, 40>> >>,
       paths |-> << <<1, 2, 3>>, <<4, 2>>, <<6, 5>>, <<3, 5>> >>] }

(* A straight road whose second way is 147 long and starts at (0, 0):      *)
(* 5 / 147 * 147 is rounded to more than 5.                                *)
LongScene ==
    [pts |-> << <<-30, 0>>, <<0, 0>>, <<147, 0>> >>, paths |-> << <<1, 2>>, <<2, 3>> >>]

(* A straight road of two ways of length 24 whose lanes are 14 wide        *)
(* (WayOptions(lanewidth=14)): a centre line that check_for_offset shifts  *)
(* by half a lane at one end still has an exact length (7, 24, 25).        *)
WideScene ==
    [pts |-> << <<0, 0>>, <<24, 0>>, <<48, 0>> >>, paths |-> << <<1, 2>>, <<2, 3>> >>]

\* WayOptions(nlanes=n) for the ways of a network, and with lanewidth=14
SceneOptions(sc, n) ==
    [WayOptions("none", n, "default") EXCEPT
        !.lanewidth = IF sc = WideScene THEN RInt(14) ELSE @]

\* the ids of the n vertices of a network: 0, 1, ... or 1, 2, ...
SceneIds(n) == { [p \in 1..n |-> p - 1], [p \in 1..n |-> p] }

SceneHeap(sc, ids) ==
    [p \in 1..Len(sc.pts) |-> Vertex(ids[p], sc.pts[p][1], sc.pts[p][2])]

InitProc ==
    \E sc \in Scenes \cup {WideScene, LongScene} :
    \E ids \in SceneIds(Len(sc.pts)) :
    \E lanes \in [1..Len(sc.paths) -> LaneCounts] :
        /\ heap = SceneHeap(sc, ids)
        /\ ways = [k \in 1..Len(sc.paths) |->
                      WayInitOptions(SceneHeap(sc, ids), sc.paths[k],
                                     SceneOptions(sc, lanes[k]))]
        /\ net = [EmptyNet EXCEPT !.vertices = [p \in 1..Len(sc.pts) |-> p]]
    /\ crossings = <<>>
    /\ connections = <<>>
    /\ pc = "new"
    /\ loop = NoLoop
    /\ ret = NoCall
    /\ nops = 0

NextProc ==
    \/ NetInit
    \/ SplitWaysSplit
    \/ SplitWaysSkip
    \/ SplitWaysRaise
    \/ ConstructCrossings
    \/ ConstructConnectionsStep
    \/ ProcessAllCrossings
    \/ ProcessConnection
    \/ ProcessWays

SpecProc == InitProc /\ [][NextProc]_vars

-----------------------------------------------------------------------------
(* Properties of the constructed network.                                  *)

\* number of edges (pairs of consecutive vertices of a way) at the vertex
\* with id vid, counted on the ways themselves
EdgeDegree(W, vid) ==
    Cardinality({ e \in (1..Len(W)) \X (1..MaxWayLen + MaxOps + 1) :
                    /\ e[2] < Len(W[e[1]].ivs)
                    /\ \/ W[e[1]].ivs[e[2]] = vid
                       \/ W[e[1]].ivs[e[2] + 1] = vid })

Constructed == pc = "constructed"

VertexIds == { heap[net.vertices[p]].idx : p \in 1..Len(net.vertices) }

\* the ways that have the vertex with id vid among their vertices
Touching(vid) ==
    { w \in 1..Len(ways) : \E k \in 1..Len(ways[w].ivs) : ways[w].ivs[k] = vid }

EndsAt(w, vid) == ways[w].ivs[1] = vid \/ ways[w].ivs[Len(ways[w].ivs)] = vid

\* the input's ids are those of generate_vertices: position = id
PositionalIds ==
    \A p \in 1..Len(net.vertices) : heap[net.vertices[p]].idx = p - 1

(* C1: after RoadNetwork construction, whatever unique ids the vertices    *)
(* carry, every interior vertex of every way has edge degree exactly 2.    *)
C1_InteriorDegreeTwo ==
    Constructed =>
        \A w \in 1..Len(ways) : \A k \in 2..Len(ways[w].ivs) - 1 :
            EdgeDegree(ways, ways[w].ivs[k]) = 2

CrossingsAt(vid) ==
    { c \in 1..Len(crossings) : heap[crossings[c].vertex].idx = vid }

CrossingWays(c) == { crossings[c].ways[k] : k \in 1..Len(crossings[c].ways) }

(* C2: after construction every vertex of degree > 2 has exactly one       *)
(* Crossing in network.crossings, over all ways touching the vertex, each  *)
(* of which starts or ends there; a vertex of degree <= 2 has none.        *)
C2_OneCrossingPerJunction ==
    Constructed =>
        \A vid \in VertexIds :
            IF EdgeDegree(ways, vid) > 2
            THEN /\ Cardinality(CrossingsAt(vid)) = 1
                 /\ \A c \in CrossingsAt(vid) : CrossingWays(c) = Touching(vid)
                 /\ \A w \in Touching(vid) : EndsAt(w, vid)
            ELSE CrossingsAt(vid) = {}

\* the Connections anchored at the vertex with id vid
ConnectionsAt(vid) ==
    { c \in 1..Len(connections) : heap[connections[c].vertex].idx = vid }

\* Connection c joins way w at w's start (at_start) or end
Covers(c, w, at_start) ==
    \/ connections[c].way1 = w /\ connections[c].connection_at_start[1] = at_start
    \/ connections[c].way2 = w /\ connections[c].connection_at_start[2] = at_start

\* the start (at_start) or end of way w lies at a degree-2 vertex at which
\* another way starts or ends
SharedEnd(w, at_start) ==
    LET vid == IF at_start THEN ways[w].ivs[1] ELSE ways[w].ivs[Len(ways[w].ivs)]
    IN  /\ EdgeDegree(ways, vid) = 2
        /\ \E u \in 1..Len(ways) : u # w /\ EndsAt(u, vid)

(* C3: after construction every way end at a degree-2 vertex shared with   *)
(* another way is covered by exactly one Connection anchored at that       *)
(* vertex, and the vertex has exactly one Connection; for any lane counts  *)
(* and also when the two ways share both endpoints.                        *)
C3_OneConnectionPerSharedEnd ==
    Constructed =>
        \A w \in 1..Len(ways) : \A at_start \in BOOLEAN :
            SharedEnd(w, at_start) =>
                LET vid == IF at_start THEN ways[w].ivs[1]
                                       ELSE ways[w].ivs[Len(ways[w].ivs)]
                IN  /\ Cardinality({ c \in ConnectionsAt(vid) :
                                       Covers(c, w, at_start) }) = 1
                    /\ Cardinality(ConnectionsAt(vid)) = 1

-----------------------------------------------------------------------------
(* Properties of the Way / Connection API.                                 *)

\* this step is the API call named op
Called(op) == nops' = nops + 1 /\ ret'.op = op

\* none of the four start/end vertex-id comparisons between the ways match
NoSharedEnd(way1, way2) ==
    /\ way1.ivs[1] # way2.ivs[1]
    /\ way1.ivs[Len(way1.ivs)] # way2.ivs[1]
    /\ way1.ivs[1] # way2.ivs[Len(way2.ivs)]
    /\ way1.ivs[Len(way1.ivs)] # way2.ivs[Len(way2.ivs)]

(* C4: Connection(index, way1, way2) raises InvalidConnectionError when    *)
(* none of the four start/end vertex-id comparisons match, and then no     *)
(* connection or crossing link slot of either way is modified.             *)
C4_InvalidConnectionRaises ==
    [][Called("connection") /\ NoSharedEnd(ways[ret'.w], ways[ret'.w2])
         => /\ ret'.raised
            /\ ways' = ways
            /\ connections' = connections]_vars

\* a Connection between two ways without a common end vertex was attempted
\* and raised
C4_Witness ==
    /\ ret.op = "connection"
    /\ ret.raised
    /\ NoSharedEnd(ways[ret.w], ways[ret.w2])

(* C5: on a way of n >= 2 vertices, for any integer index, insert_vertex   *)
(* and pop_vertex leave the first and the last vertex in place and at      *)
(* least 2 vertices in the way, and a call that raises leaves vertices,    *)
(* ids and offsets unchanged.                                              *)
C5_EndsNeverMutated ==
    [][(Called("insert_vertex") \/ Called("pop_vertex"))
         /\ Len(ways[ret'.w].vertices) >= 2
         => LET old == ways[ret'.w]
                new == ways'[ret'.w]
            IN  /\ Len(new.vertices) >= 2
                /\ new.vertices[1] = old.vertices[1]
                /\ new.vertices[Len(new.vertices)] = old.vertices[Len(old.vertices)]
                /\ new.ivs[1] = old.ivs[1]
                /\ new.ivs[Len(new.ivs)] = old.ivs[Len(old.ivs)]
                /\ ret'.raised => new = old]_vars

(* C6: insert_vertex and pop_vertex return start_invalidated exactly when  *)
(* the vertex inserted or removed is the second from the way's start and   *)
(* the start has a Crossing link, and end_invalidated exactly when it is   *)
(* the second from the way's end and the end has a Crossing link.          *)
C6_InvalidationFlags ==
    [][/\ \/ Called("insert_vertex")
          \/ Called("pop_vertex")
       /\ ~ret'.raised
         => LET old  == ways[ret'.w]
                new  == ways'[ret'.w]
                long == IF ret'.op = "insert_vertex" THEN new ELSE old
                short == IF ret'.op = "insert_vertex" THEN old ELSE new
                \* the vertex that is in one list and not in the other
                v    == CHOOSE x \in { long.vertices[k] : k \in 1..Len(long.vertices) } :
                            \A k \in 1..Len(short.vertices) : short.vertices[k] # x
                n    == Len(long.vertices)
            IN  /\ ret'.start <=> (n >= 2 /\ long.vertices[2] = v
                                   /\ old.crossing.i_start >= 0)
                /\ ret'.end <=> (n >= 2 /\ long.vertices[n - 1] = v
                                 /\ old.crossing.i_end >= 0)]_vars

(* C7: after split(index) the original way's last vertex and the returned  *)
(* way's first vertex are one shared Vertex object, and ways that hold a   *)
(* vertex id hold the same Vertex object for it, so that an in-place       *)
(* change of its coordinates is seen by all of them.                       *)
C7_SplitSharesVertices ==
    /\ (ret.op = "split" /\ ret.index >= 0 /\ Len(ways[ret.w2].vertices) >= 1)
          => ways[ret.w].vertices[Len(ways[ret.w].vertices)]
                 = ways[ret.w2].vertices[1]
    /\ \A w, u \in 1..Len(ways) :
       \A k \in 1..Len(ways[w].ivs) : \A j \in 1..Len(ways[u].ivs) :
           ways[w].ivs[k] = ways[u].ivs[j]
               => /\ heap[ways[w].vertices[k]].x = heap[ways[u].vertices[j]].x
                  /\ heap[ways[w].vertices[k]].y = heap[ways[u].vertices[j]].y

(* C8: the way returned by split(index) has no Connection link and no      *)
(* Crossing link at either end, whatever links the original way carried.   *)
C8_SplitLeavesLinksUnset ==
    ret.op = "split"
        => /\ ways[ret.w2].connection = NoLink
           /\ ways[ret.w2].crossing = NoLink

\* every way's vertex list, id list and offset list have one length
LengthsAgree ==
    \A w \in 1..Len(ways) :
        /\ Len(ways[w].vertices) = Len(ways[w].ivs)
        /\ Len(ways[w].offset) = Len(ways[w].ivs)

\* split(index) at a vertex of the way: index+1 entries stay, the entries
\* from index on are those of the returned way
SplitCounts ==
    Called("split") /\ 0 <= ret'.index /\ ret'.index < Len(ways[ret'.w].ivs)
        => LET old  == ways[ret'.w]
               self == ways'[ret'.w]
               way  == ways'[ret'.w2]
               i    == ret'.index
               n    == Len(old.ivs)
           IN  /\ Len(self.vertices) = i + 1
               /\ self.ivs = SubSeq(old.ivs, 1, i + 1)
               /\ self.offset = SubSeq(old.offset, 1, i + 1)
               /\ Len(way.vertices) = n - i
               /\ way.ivs = SubSeq(old.ivs, i + 1, n)
               /\ way.offset = SubSeq(old.offset, i + 1, n)

(* C9: after any sequence of construction, split, insert_vertex,           *)
(* pop_vertex and apply_offset calls, raising ones included, every way's   *)
(* offset list, vertex list and id list have the same length; split(index) *)
(* leaves index+1 entries in the original way and the entries from index   *)
(* on in the returned way.                                                 *)
C9_ListsSameLength == [](LengthsAgree) /\ [][SplitCounts]_vars

\* a way was split at an interior vertex after a vertex was inserted in it
C9_Witness ==
    /\ ret.op = "split"
    /\ nops = 2
    /\ ret.index >= 1
    /\ Len(ways[ret.w].ivs) = ret.index + 1
    /\ Len(ways[ret.w2].ivs) >= 2
    /\ \E k \in 1..Len(ways[ret.w2].ivs) : ways[ret.w2].ivs[k] >= PoolVertices

\* what apply_offset is to add to the offset of vertex k (1-based)
ExpectedOffset(h, way, spec, k) ==
    IF ~spec.list THEN spec.v[1]
    ELSE IF Len(spec.v) = 2
    THEN RAdd(spec.v[1],
              RDiv(RMul(RInt(CumDist(h, way.vertices, k)),
                        RSub(spec.v[2], spec.v[1])),
                   RInt(CumDist(h, way.vertices, Len(way.vertices)))))
    ELSE spec.v[k]

(* C10: apply_offset adds to each vertex's stored offset: a scalar o adds  *)
(* o to every vertex, a pair [start, end] adds the values interpolated     *)
(* linearly by cumulative arc length, a list of N values (N the number of  *)
(* vertices) adds spec[i] to vertex i.                                     *)
C10_ApplyOffsetAdds ==
    [][/\ Called("apply_offset")
       /\ \/ ~ret'.arg.list
          \/ Len(ret'.arg.v) = 2
          \/ Len(ret'.arg.v) = Len(ways[ret'.w].offset)
         => LET old == ways[ret'.w]
                new == ways'[ret'.w]
            IN  /\ Len(new.offset) = Len(old.offset)
                /\ \A k \in 1..Len(old.offset) :
                       new.offset[k]
                           = RAdd(old.offset[k],
                                  ExpectedOffset(heap, old, ret'.arg, k))]_vars

-----------------------------------------------------------------------------
(* Properties of Crossing.process().                                       *)

\* two directions with the same np.arctan2
SameAngle(a, b) == ~AngleLess(a, b) /\ ~AngleLess(b, a)

\* a corner whose radius process() has made smaller than options.radius
Reduced(c, i) == RLess(c.radii[i], c.radius) /\ c.lambda_right[i].n > 0

(* C11: calling process() on a Crossing a second time with no mutation in  *)
(* between leaves the corner radii, the trim fractions written to the      *)
(* ways and the boundary coordinates as the first call left them, also     *)
(* when the first call reduced a radius.                                   *)
C11_ProcessIdempotent ==
    [][(Called("process") /\ ret.op = "process" /\ ret.index = ret'.index)
          => /\ crossings' = crossings
             /\ ways' = ways
             /\ ret'.raised = ret.raised]_vars

\* process() has run twice in a row on a crossing with a reduced radius
C11_Witness ==
    /\ nops = MaxCrossOps
    /\ ret.op = "process"
    /\ ~ret.raised
    /\ \E i \in 1..Len(crossings[1].ways) : Reduced(crossings[1], i)

\* Crossing(idx, vertex, ways) over the ways as they are now, and its process()
FreshCrossing(h, W, c) == CrossingInit(h, W, c.idx, c.vertex, c.ways)
FreshProcess(h, W, c) ==
    CrossingProcess(h, FreshCrossing(h, W, c).ways, FreshCrossing(h, W, c).crossing)

\* the results of process() that two crossings can be compared by
SameResult(a, b) ==
    /\ a.radius = b.radius
    /\ a.radii = b.radii
    /\ a.ways = b.ways
    /\ \A i \in 1..Len(a.ways) : SameAngle(a.angles[i], b.angles[i])
    /\ a.circle = b.circle
    /\ a.lambda_left = b.lambda_left
    /\ a.lambda_right = b.lambda_right
    /\ a.plot_first = b.plot_first
    /\ a.plot_last = b.plot_last

(* C12: a process() that is called again recomputes from scratch: after    *)
(* any change of the ways or of vertex coordinates its result (radius,     *)
(* corner radii, order and angles of the ways, trim fractions, boundary)   *)
(* is that of a Crossing newly constructed over the same ways.             *)
C12_ReprocessFromScratch ==
    [][(/\ Called("process")
        /\ CrossingMeasurable(heap, FreshCrossing(heap, ways, crossings[ret'.index]).ways,
                              FreshCrossing(heap, ways, crossings[ret'.index]).crossing))
          => LET f == FreshProcess(heap, ways, crossings[ret'.index])
             IN  /\ ret'.raised = f.raised
                 /\ ~f.raised =>
                       /\ SameResult(crossings'[ret'.index], f.crossing)
                       /\ \A w \in 1..Len(ways) : ways'[w].trim = f.ways[w].trim]_vars

\* the first of the ways, in the order given, that is no footway (0: none)
FirstRoad(W) ==
    IF \A k \in 1..Len(W) : W[k].highway = "footway" THEN 0
    ELSE CHOOSE k \in 1..Len(W) :
            /\ W[k].highway # "footway"
            /\ \A j \in 1..k - 1 : W[j].highway = "footway"

(* C15: a Crossing that is no zebra takes fill and edge color from the     *)
(* first way it was given; a zebra takes them from the first way given     *)
(* that is not a footway, however many roads of other colors follow.  The  *)
(* client passes the ways in the order it holds them.                      *)
C15_ColorFromFirstWay ==
    \A c \in 1..Len(crossings) :
        (pc = "api" /\ Len(crossings[c].ways) = Len(ways)) =>
            IF ~crossings[c].zebra
            THEN /\ crossings[c].color = ways[1].color
                 /\ crossings[c].edge_color = ways[1].side_color
            ELSE FirstRoad(ways) # 0 =>
                 /\ crossings[c].color = ways[FirstRoad(ways)].color
                 /\ crossings[c].edge_color = ways[FirstRoad(ways)].side_color

\* the ways leave the crossing as they did when it was constructed
Unmoved(h, W, c) ==
    \A i \in 1..Len(c.ways) :
        /\ Len(W[c.ways[i]].vertices) >= 2
        /\ SameAngle(c.angles[i], CrossingDirectionAt(h, W[c.ways[i]], c.at_start[i]))

(* C16: at every corner between two ways, consecutive in clockwise order,  *)
(* whose outward directions are 180 degrees or more apart, process() puts  *)
(* the corner at the crossing's vertex, with the half width of the first   *)
(* way as radius and both trim fractions zero; two opposite ways in line   *)
(* are trimmed by neither corner.                                          *)
C16_WideCornerAtVertex ==
    [][(Called("process") /\ Unmoved(heap, ways, crossings[ret'.index]))
          => LET c == crossings'[ret'.index]
             IN  \A i \in 1..Len(c.ways) :
                    (\/ AngleSin(c.angles[i], c.angles[SecondWay(c, i)]) < 0
                     \/ /\ AngleSin(c.angles[i], c.angles[SecondWay(c, i)]) = 0
                        /\ AngleCos(c.angles[i], c.angles[SecondWay(c, i)]) < 0)
                    => /\ c.radii[i] = ways[c.ways[i]].hwidth
                       /\ c.circle[i] = [x |-> RInt(heap[c.vertex].x),
                                         y |-> RInt(heap[c.vertex].y)]
                       /\ c.lambda_right[i] = RInt(0)
                       /\ c.lambda_left[SecondWay(c, i)] = RInt(0)]_vars

\* the end of way w that is not at the crossing's vertex
OuterEnd(w) ==
    IF ways[w].vertices[1] = crossings[1].vertex
    THEN heap[ways[w].vertices[Len(ways[w].vertices)]]
    ELSE heap[ways[w].vertices[1]]

\* the crossing of test_automatic_crossing_creation, processed: three roads
\* of two vertices and two lanes from (0, 0) to (-10, 0), (0, 10), (10, 0)
ThreeWayScene ==
    /\ pc = "api"
    /\ Len(crossings) = 1
    /\ Len(ways) = 3
    /\ heap[crossings[1].vertex].x = 0
    /\ heap[crossings[1].vertex].y = 0
    /\ \A w \in 1..3 :
          /\ Len(ways[w].vertices) = 2
          /\ ways[w].highway = "none"
          /\ ways[w].nlanes = 2
          /\ ways[w].lanewidth = DEFAULT_LANE_WIDTH
    /\ { <<OuterEnd(w).x, OuterEnd(w).y>> : w \in 1..3 }
           = { <<-10, 0>>, <<0, 10>>, <<10, 0>> }
    /\ ret.op = "process"
    /\ ~ret.raised

(* C17: in the three-way crossing at the origin with arms of two vertices  *)
(* to (-10, 0), (0, 10) and (10, 0), roads of two lanes 2.8 wide, default  *)
(* radius 2.0, both corners next to the middle arm trim both their ways    *)
(* by a fraction strictly between 0 and 0.9.                               *)
C17_ThreeWayTrims ==
    ThreeWayScene =>
        LET c == crossings[1]
        IN  /\ c.radius = RInt(2)
            /\ \A i \in 1..3 :
                  (OuterEnd(c.ways[i]).y = 10 \/ OuterEnd(c.ways[SecondWay(c, i)]).y = 10)
                  => /\ RLess(RInt(0), c.lambda_right[i])
                     /\ RLess(c.lambda_right[i], Rat(9, 10))
                     /\ RLess(RInt(0), c.lambda_left[SecondWay(c, i)])
                     /\ RLess(c.lambda_left[SecondWay(c, i)], Rat(9, 10))

\* the scene right after its first process(): both corners were reduced
C17_Witness ==
    /\ ThreeWayScene
    /\ nops = 1
    /\ Cardinality({ i \in 1..3 : Reduced(crossings[1], i) }) = 2

-----------------------------------------------------------------------------
(* Properties of Way.process() and apply_offset.                           *)

\* the way that Way.split cut into the two ways of W
Unsplit(W) ==
    [W[1] EXCEPT !.vertices = W[1].vertices \o Tail(W[2].vertices),
                 !.ivs      = W[1].ivs \o Tail(W[2].ivs),
                 !.offset   = W[1].offset \o Tail(W[2].offset)]

(* C13: the two ways Way.split(i) makes, when processed, have at the       *)
(* vertex they share and at every other vertex the left and right          *)
(* boundary points the unsplit way has there, also when the line bends at  *)
(* the vertex of the split.                                                *)
C13_SplitKeepsBoundary ==
    (ret.op = "process_way" /\ Len(ways) = 2)
        => LET w     == ret.w
               whole == WayProcess(heap, Unsplit(ways))
               shift == IF w = 1 THEN 0 ELSE Len(ways[1].vertices) - 1
           IN  \A k \in 1..Len(ways[w].vertices) :
                  /\ ways[w].left[k] = whole.left[k + shift]
                  /\ ways[w].right[k] = whole.right[k + shift]

(* C18: for every line of N >= 2 points of which no two consecutive ones   *)
(* coincide, apply_offset(points, 0) returns the points it was given.      *)
C18_ZeroOffsetIdentity ==
    [][(Called("offset_line") /\ ret'.arg.v[1] = RInt(0))
          => ret'.xy = VertexXY(heap, ways[ret'.w])]_vars

\* the point at distance o to the left of p, seen along the segment from a to b
LeftOf(p, a, b, o) ==
    LET n == RHypot(RSub(b.x, a.x), RSub(b.y, a.y))
    IN  [x |-> RSub(p.x, RMul(o, RDiv(RSub(b.y, a.y), n))),
         y |-> RAdd(p.y, RMul(o, RDiv(RSub(b.x, a.x), n)))]

\* a straight road of two lanes from (-10, 0) to (10, 0), tied to nothing
StraightRoad(h, way) ==
    /\ VertexXY(h, way) = << [x |-> RInt(-10), y |-> RInt(0)],
                             [x |-> RInt(10), y |-> RInt(0)] >>
    /\ way.nlanes = 2
    /\ way.lanewidth = DEFAULT_LANE_WIDTH
    /\ way.crossing = NoLink
    /\ way.connection = NoLink

-----------------------------------------------------------------------------
(* Properties of RoadNetwork.process().                                    *)

\* vertex v is in network.vertices and its id, at the same position, in
\* the network's id list
InNetwork(h, nt, v) ==
    \E p \in 1..Len(nt.vertices) :
        /\ nt.vertices[p] = v
        /\ p <= Len(nt.ivs)
        /\ nt.ivs[p] = h[v].idx

\* the vertices that Connections inserted into the ways: insert_vertex
\* wrote their id of that moment, -1, into the id list of the way
Synthesized(h, W) ==
    { v \in 1..Len(h) :
        \E w \in 1..Len(W) : \E k \in 1..Len(W[w].ivs) :
            W[w].ivs[k] = -1 /\ W[w].vertices[k] = v }

(* C14: every vertex synthesized by a Connection during                    *)
(* RoadNetwork.process() is appended to network.vertices and its id to the *)
(* network's id list, with an id different from every other vertex id of   *)
(* the network; vertex ids stay pairwise distinct after any number of      *)
(* process() calls.                                                       *)
C14_NewVerticesRegistered ==
    (pc # "new") =>
        /\ Len(net.vertices) = Len(net.ivs)
        /\ \A p \in 1..Len(net.ivs) : heap[net.vertices[p]].idx = net.ivs[p]
        /\ \A p, q \in 1..Len(net.ivs) : p # q => net.ivs[p] # net.ivs[q]
        /\ \A k \in 1..Len(ret.vertices) : InNetwork(heap, net, ret.vertices[k])
        /\ \A v \in Synthesized(heap, ways) :
              /\ InNetwork(heap, net, v)
              /\ \A u \in 1..Len(heap) : u # v => heap[u].idx # heap[v].idx

\* a second process() call has returned on a network to which the
\* Connections of the first call added vertices
C14_Witness ==
    /\ pc = "processed"
    /\ nops = 2
    /\ Cardinality(Synthesized(heap, ways)) = 2
    /\ \E v \in 1..Len(heap) : heap[v].x = 35 /\ heap[v].idx = SeqMax(net.ivs)

(* C20: when RoadNetwork.process() returns, every Crossing, auto-discovered *)
(* or the delegate of a Connection, one of whose incident ways had a       *)
(* vertex inserted during the pass as the new second vertex from the       *)
(* Crossing's end has been processed again after that insertion, whatever  *)
(* the order of the Connections and whatever ids the Crossings have.       *)
C20_OutdatedCrossingsReprocessed ==
    (ret.op = "ways") => (ret.stale = {} /\ ret.stale_conn = {})

\* the positions, in list order, of the Crossings whose id is in S
CrossingsIn(C, S) ==
    SelectSeq([k \in 1..Len(C) |-> k], LAMBDA k : C[k].idx \in S)

\* the positions up to last, in list order, of the Connections whose
\* delegate Crossing has an id in S
DelegatesIn(K, S, last) ==
    SelectSeq([k \in 1..last |-> k],
              LAMBDA k : IF K[k].crossing = <<>> THEN FALSE
                         ELSE K[k].crossing[1].idx \in S)

(* C21: in RoadNetwork.process(), when the Connection at list position i   *)
(* returns a set S of invalidated Crossing ids, every Crossing of          *)
(* network.crossings whose id is in S is processed again and then every    *)
(* Connection at a position < i whose delegate Crossing's id is in S, all  *)
(* before the Connection at position i + 1 is processed; Connections at    *)
(* positions > i are not run again on account of S.  (Positions are        *)
(* counted from 1 here: ret.index - 1 Connections come earlier.)           *)
C21_ReprocessOrder ==
    [][(ret'.op = "process_connection" /\ pc = "process_connections"
          /\ ~ret'.raised)
         => /\ ret'.index = loop.i + 1
            /\ loop'.i = ret'.index
            /\ ret'.log =
                  Logged("crossing",
                         CrossingsIn(crossings, Elements(ret'.i_crossings)))
                  \o Logged("connection",
                            DelegatesIn(connections, Elements(ret'.i_crossings),
                                        ret'.index - 1))
            /\ \A k \in 1..Len(ret'.log) :
                  ret'.log[k].kind = "connection" => ret'.log[k].k < ret'.index]_vars

\* a Connection that inserted a vertex had an earlier Connection with a
\* delegate Crossing processed again
C21_Witness ==
    /\ ret.op = "process_connection"
    /\ ret.i_crossings # <<>>
    /\ ret.vertices # <<>>
    /\ ret.again_conn # {}
    /\ \A k \in ret.again_conn : k < ret.index

(* C22: in every RoadNetwork.process() pass all Crossings are processed    *)
(* first, then the Connections in list order, and every Way is processed   *)
(* exactly once at the very end: no Way.process() call precedes any        *)
(* Crossing.process() or Connection.process() call of the same pass.       *)
C22_WaysLast ==
    [][/\ (ret'.op = "process" /\ nops' = nops + 1)
          => (pc \in {"constructed", "processed"} /\ loop'.i = 0)
       /\ (ret'.op = "process_connection" /\ pc = "process_connections")
          => (ret'.index = loop.i + 1 /\ ret.op \in {"process", "process_connection"})
       /\ (ret'.op = "ways" /\ pc = "process_connections")
          => /\ loop.i = Len(connections)
             /\ ret.op \in {"process", "process_connection"}
             /\ crossings' = crossings
             /\ connections' = connections
             /\ Len(ways') = Len(ways)
             /\ pc' = "processed"
       /\ (pc = "processed" /\ pc' # "processed")
          => (ret'.op = "process" /\ nops' = nops + 1)]_vars

\* a pass over a network with Crossings and several Connections has ended
\* with the ways
C22_Witness ==
    /\ ret.op = "ways"
    /\ pc = "processed"
    /\ Len(connections) >= 2
    /\ Len(crossings) >= 1
    /\ loop.i = Len(connections)

-----------------------------------------------------------------------------
(* Properties of split_ways and of the ids of the constructed Crossings.   *)

\* the interior vertices of the ways, as (way, position), whose degree is
\* not 2
BadInterior(W) ==
    { e \in (1..Len(W)) \X (2..MaxWayLen + MaxOps) :
        /\ e[2] < Len(W[e[1]].ivs)
        /\ EdgeDegree(W, W[e[1]].ivs[e[2]]) # 2 }

(* C23: split_ways terminates for every finite input network: the number  *)
(* of ways only grows, each split strictly reduces the number of interior  *)
(* vertices whose degree is not 2, and the loop ends once no way has such  *)
(* an interior vertex.                                                     *)
C23_SplitWaysProgress ==
    [][pc = "split_ways"
         => /\ Len(ways') >= Len(ways)
            /\ Len(ways') > Len(ways)
                  => Cardinality(BadInterior(ways')) < Cardinality(BadInterior(ways))
            /\ pc' = "construct_connections" => BadInterior(ways) = {}]_vars

\* the crossing link id stored on the end of the way that lies at the
\* vertex with id vid
LinkAt(way, vid) ==
    IF way.ivs[1] = vid THEN way.crossing.i_start ELSE way.crossing.i_end

\* every way of Crossing X carries the id of X on its end at X's vertex
LinkedBack(h, W, X) ==
    \A k \in 1..Len(X.ways) : LinkAt(W[X.ways[k]], h[X.vertex].idx) = X.idx

\* the delegate Crossings of the Connections, in list order
Delegates(K) ==
    SelectSeq([k \in 1..Len(K) |-> IF K[k].crossing = <<>> THEN <<>>
                                                           ELSE K[k].crossing],
              LAMBDA c : c # <<>>)

(* C24: after RoadNetwork construction, for every Crossing C, auto-        *)
(* discovered or the delegate of a Connection, and every way incident to   *)
(* C, the crossing link id stored on the way's end anchored at C's vertex  *)
(* equals C's id; Crossing ids are pairwise distinct, with delegate        *)
(* Crossings numbered after all auto-discovered ones.                      *)
C24_LinkIdsMatch ==
    Constructed =>
        /\ \A k \in 1..Len(crossings) :
              /\ crossings[k].idx = k - 1
              /\ LinkedBack(heap, ways, crossings[k])
        /\ \A k \in 1..Len(Delegates(connections)) :
              /\ Delegates(connections)[k][1].idx = Len(crossings) + k - 1
              /\ LinkedBack(heap, ways, Delegates(connections)[k][1])

-----------------------------------------------------------------------------
(* Properties of Connection.process().                                     *)

\* the ids of the Crossings, auto-discovered or delegates, that have the
\* way at position w among their ways and lie at the vertex with id vid
CrossingIdsAt(h, C, K, w, vid) ==
    { C[k].idx : k \in { j \in 1..Len(C) :
                            /\ h[C[j].vertex].idx = vid
                            /\ \E m \in 1..Len(C[j].ways) : C[j].ways[m] = w } }
    \cup
    { K[k].crossing[1].idx :
        k \in { j \in 1..Len(K) :
                  IF K[j].crossing = <<>> THEN FALSE
                  ELSE /\ h[K[j].crossing[1].vertex].idx = vid
                       /\ \E m \in 1..2 : K[j].crossing[1].ways[m] = w } }

\* a set of at most one id as a list
AsList(S) == IF S = {} THEN <<>> ELSE <<CHOOSE x \in S : TRUE>>

\* the squared length of the segment of the way next to its connected end
NextSquared(h, way, at_start) ==
    ConnectionDirection(h, way, at_start).dx * ConnectionDirection(h, way, at_start).dx
    + ConnectionDirection(h, way, at_start).dy * ConnectionDirection(h, way, at_start).dy

\* the way (before) got exactly the vertex v as its new second vertex from
\* the connected end, HLENGTH_MERGE from that end along the old segment
InsertedAtMerge(h, before, after, at_start, v) ==
    LET p1 == EndVertex(h, before, at_start)
        d  == ConnectionDirection(h, before, at_start)
        n  == Len(before.vertices)
    IN  /\ after.vertices = IF at_start
                            THEN <<before.vertices[1], v>> \o Tail(before.vertices)
                            ELSE SubSeq(before.vertices, 1, n - 1)
                                   \o <<v, before.vertices[n]>>
        /\ (h[v].x - p1.x) * (h[v].x - p1.x) + (h[v].y - p1.y) * (h[v].y - p1.y)
             = HLENGTH_MERGE * HLENGTH_MERGE
        /\ h[v].xulp = p1.xulp /\ h[v].yulp = p1.yulp
        /\ (h[v].x - p1.x) * d.dy = (h[v].y - p1.y) * d.dx
        /\ (h[v].x - p1.x) * d.dx + (h[v].y - p1.y) * d.dy > 0

\* the ids of the Crossings at the ends of the way whose adjacent vertex
\* is the inserted one: the connected end, and the far end of a way of two
\* vertices; start before end
ExpectedIds(h, C, K, W, w, at_start) ==
    LET n == Len(W[w].ivs)
    IN  (IF at_start \/ n = 2
         THEN AsList(CrossingIdsAt(h, C, K, w, W[w].ivs[1])) ELSE <<>>)
        \o (IF ~at_start \/ n = 2
            THEN AsList(CrossingIdsAt(h, C, K, w, W[w].ivs[n])) ELSE <<>>)

\* what the claim expects of one way of the Connection: [vertices, ids],
\* given the vertices new the call returned
ExpectedOf(h, C, K, W, w, at_start) ==
    IF NextSquared(h, W[w], at_start) > HLENGTH_MERGE * HLENGTH_MERGE
    THEN [n |-> 1, ids |-> ExpectedIds(h, C, K, W, w, at_start)]
    ELSE [n |-> 0, ids |-> <<>>]

(* C25: Connection.compute_distance_to_next_vertex handles way1 then way2: *)
(* if the distance from the shared vertex to a way's next vertex exceeds   *)
(* the merge length (5), exactly one new vertex is inserted into that way  *)
(* as the new second vertex from the shared end, at exactly the merge      *)
(* distance from the shared vertex, and the returned id list contains      *)
(* exactly the ids of the Crossings linked to a way end whose adjacent     *)
(* vertex was changed by the insertion (for a 2-vertex way: the Crossing   *)
(* at its far end), in way1-then-way2 order; a way whose next vertex lies  *)
(* within the merge length is left unchanged and contributes nothing.      *)
C25_MergeVertices ==
    [][(ret'.op = "process_connection" /\ pc = "process_connections")
         => LET c  == connections[ret'.index]
                e1 == ExpectedOf(heap, crossings, connections, ways,
                                 c.way1, c.connection_at_start[1])
                e2 == ExpectedOf(heap, crossings, connections, ways,
                                 c.way2, c.connection_at_start[2])
            IN  c.crossing = <<>>
                => /\ Len(ret'.vertices) = e1.n + e2.n
                   /\ IF e1.n = 1
                      THEN InsertedAtMerge(heap', ways[c.way1], ways'[c.way1],
                                           c.connection_at_start[1], ret'.vertices[1])
                      ELSE ways'[c.way1].vertices = ways[c.way1].vertices
                   /\ IF e2.n = 1
                      THEN InsertedAtMerge(heap', ways[c.way2], ways'[c.way2],
                                           c.connection_at_start[2],
                                           ret'.vertices[e1.n + 1])
                      ELSE ways'[c.way2].vertices = ways[c.way2].vertices
                   /\ ret'.i_crossings = e1.ids \o e2.ids]_vars

\* the end of a boundary of a way at the vertex of a connection
BoundaryEnd(b, at_start) == IF at_start THEN b[1] ELSE b[Len(b)]

\* the boundaries of the two ways of connection c meet at its vertex: left
\* with left where one way ends and the other starts, left with right where
\* both start or both end there
BoundariesMeet(W, c) ==
    IF c.connection_at_start[1] = c.connection_at_start[2]
    THEN /\ BoundaryEnd(W[c.way1].left, c.connection_at_start[1])
              = BoundaryEnd(W[c.way2].right, c.connection_at_start[2])
         /\ BoundaryEnd(W[c.way1].right, c.connection_at_start[1])
              = BoundaryEnd(W[c.way2].left, c.connection_at_start[2])
    ELSE /\ BoundaryEnd(W[c.way1].left, c.connection_at_start[1])
              = BoundaryEnd(W[c.way2].left, c.connection_at_start[2])
         /\ BoundaryEnd(W[c.way1].right, c.connection_at_start[1])
              = BoundaryEnd(W[c.way2].right, c.connection_at_start[2])

(* C26: after a non-delegating Connection.process() and Way.process() on   *)
(* both of its ways, the boundary endpoints of the two ways at the shared  *)
(* vertex coincide: left meets left and right meets right when one way     *)
(* ends where the other starts, left meets right when both ways start or   *)
(* both end at the shared vertex.                                          *)
C26_BoundariesMeet ==
    pc = "processed"
      => \A k \in 1..Len(connections) :
            connections[k].crossing = <<>> => BoundariesMeet(ways, connections[k])

\* the ways were processed after a connection of each of the two kinds that
\* were drawn was: one where both ways start at the vertex, and the left
\* boundary of way1 does end on the right boundary of way2 and not on the
\* centre line
C26_Witness ==
    /\ pc = "processed"
    /\ \E k \in 1..Len(connections) :
          /\ connections[k].crossing = <<>>
          /\ connections[k].connection_at_start = <<TRUE, TRUE>>
          /\ BoundariesMeet(ways, connections[k])
          /\ ways[connections[k].way1].left[1] # ways[connections[k].way1].right[1]
          /\ ~IsNaN(ways[connections[k].way1].left[1])

-----------------------------------------------------------------------------
(* Properties of Crossing.compute_corner_info.                             *)

\* the radius compute_corner_info tries first for corner i
TriedFirst(W, c, i) == IF c.radii[i].n < 0 THEN ComputeRadius(W, c) ELSE c.radii[i]

\* corner i is rounded, and with the radius tried first a lambda is larger
\* than its way allows
ExceedsWith(h, W, c, i, i2, radius) ==
    /\ ~AngleAtLeastPi(c.angles[i], c.angles[i2])
    /\ LET first == ComputeIntersection(h, W, c, i, i2,
                                        RAdd(W[c.ways[i]].hwidth, radius),
                                        RAdd(W[c.ways[i2]].hwidth, radius))
       IN  /\ ~first.raised
           /\ \/ RLess(MaxLambda(W[c.ways[i]]), first.lambda_right)
              \/ RLess(MaxLambda(W[c.ways[i2]]), first.lambda_left)
Exceeds(h, W, c, i) == ExceedsWith(h, W, c, i, SecondWay(c, i), TriedFirst(W, c, i))

(* C27: whenever, in compute_corner_info, a trim fraction is larger than   *)
(* its maximum (0.45 for a way of two vertices, else 0.9), the radius that *)
(* is computed again is smaller than the radius that was tried first, for  *)
(* all way lengths and half-widths.                                        *)
C27_RadiusReduced ==
    [][(ret'.op = "process" /\ ~ret'.raised /\ nops' = nops + 1)
         => \A i \in 1..Len(crossings[ret'.index].ways) :
               Exceeds(heap, ways, crossings[ret'.index], i)
                 => RLess(crossings'[ret'.index].radii[i],
                          TriedFirst(ways, crossings[ret'.index], i))]_vars

-----------------------------------------------------------------------------
(* Properties of the id list of a Way.                                     *)

\* ivs[k] is the id of vertices[k], at every position of the way
IvsConsistent(h, way) ==
    /\ Len(way.ivs) = Len(way.vertices)
    /\ \A k \in 1..Len(way.ivs) : way.ivs[k] = h[way.vertices[k]].idx

(* C28: for every Way at all times (after construction, split,             *)
(* insert_vertex, pop_vertex and after RoadNetwork.process() has           *)
(* registered the synthesized vertices) the id list is consistent with the *)
(* vertex list: ivs[k] equals vertices[k].idx for every position k.        *)
C28_IvsMatchVertices ==
    \A w \in 1..Len(ways) : IvsConsistent(heap, ways[w])

-----------------------------------------------------------------------------
(* Properties of a second RoadNetwork.process().                           *)

\* the stored offsets of every way
Offsets(W) == [w \in 1..Len(W) |-> W[w].offset]

\* a step in which process() of the Connection at position k is called in
\* the pass with number n
ConnectionPass(n) ==
    pc = "process_connections" /\ nops = n /\ ret'.op = "process_connection"

(* C29: Connection.process() is idempotent with respect to the stored      *)
(* per-vertex offsets of the ways: when RoadNetwork.process() is called a   *)
(* second time, the second call of a Connection's process() leaves every   *)
(* way's offsets as the first call left them, also when way2 has exactly    *)
(* one more lane than way1.                                                 *)
C29_OffsetsIdempotent ==
    [][ConnectionPass(2) => Offsets(ways') = Offsets(ways)]_vars

\* the vertex lists of all ways
VertexLists(W) == [w \in 1..Len(W) |-> W[w].vertices]

(* C30: the vertex insertion of RoadNetwork.process() reaches a fixpoint    *)
(* after one pass: in a second process() call no Connection synthesizes a   *)
(* vertex, so the vertex lists of all ways and of the network stay as the   *)
(* first call left them.                                                    *)
C30_InsertionFixpoint ==
    [][nops' = 2
         => /\ VertexLists(ways') = VertexLists(ways)
            /\ net'.vertices = net.vertices
            /\ ret'.op = "process_connection" => ret'.vertices = <<>>]_vars

====
